---------------------------- MODULE Spec2Model ----------------------------
(***************************************************************************)
(* Place&Play verification bot: the per-chat attempt limiter and the bot's *)
(* handle_phone_number runs (telegram_bot.py), the agent's session-token   *)
(* codec, code extractor and orchestration runs (place_and_play_agent.py). *)
(*                                                                         *)
(* Time is counted in whole seconds.  Strings that the code inspects       *)
(* character by character (phone numbers, JSON keys) are tuples of         *)
(* one-character strings.                                                  *)
(***************************************************************************)
EXTENDS Integers, Sequences, FiniteSets, TLC

VARIABLES
    now,        \* the wall clock read by time.time() / datetime.utcnow()
    attempts,   \* PlaceAndPlayBot.attempts: chat_id -> list of timestamps
    bruns,      \* the bot's handle_phone_number coroutines in flight, one per slot
    passes,     \* history: per chat, the times less than block_duration ago at which
                \* record_attempt ran
    ddos,       \* output of the last step: what check_ddos_protection returned in it
    bdone,      \* output of the last step: the handle_phone_number run that returned in it
    arun,       \* the agent operation that ran and is not answered yet: its
                \* arguments, its calls in order, what it returned
    jwt_secret, \* PlaceAndPlayAgent.jwt_secret of the running agent
    issued,     \* the last link generate_verification_link returned
    vres        \* output of the last step: what validate_verification_token returned in it

vars == <<now, attempts, bruns, passes, ddos, bdone, arun, jwt_secret, issued, vres>>

-----------------------------------------------------------------------------
(* Bounds of the model *)

\* number of whole block windows the clock runs through
MaxPeriods == 2
\* number of handle_phone_number coroutines that can be in flight together
MaxSlots == 2
\* number of token lifetimes the clock of the agent runs through
MaxDays == 1
\* number of objects a code is nested under in an upstream response
MaxDepth == 2
\* latest second at which a burst of one attempt a second starts
MaxBurstStart == 1

(* Program constants *)

max_attempts == 5
block_duration == 600

\* the chats (the limiter's identities)
ChatIds == {1, 2}
Slots == 1..MaxSlots

None == "None"

\* The instants at which the bot reads the clock: the first and the last
\* second of every block window.
Instants ==
    { k * block_duration + o : k \in 0..MaxPeriods, o \in {0, block_duration - 1} }

\* The instants around a burst of five attempts, one a second from second t:
\* the seconds of the burst, the one after it, and the seconds about the end
\* of the window of its first attempt.
BurstInstants ==
    { t + o : t \in 0..MaxBurstStart,
              o \in {0, 1, 2, 3, 4, 5, block_duration - 1, block_duration} }

-----------------------------------------------------------------------------
(* Phone numbers, as the bot inspects them *)

ValidPhone == <<"+", "9", "9", "8", "9", "9", "8", "8", "8", "8", "9", "3", "1">>
NoPlusPhone == <<"9", "9", "8", "9", "9", "8", "8", "8", "8", "9", "3", "1">>
ShortPhone == <<"+", "9", "9", "8", "9", "9">>

Phones == {ValidPhone, NoPlusPhone, ShortPhone}

startswith_plus(phone_number) ==
    Len(phone_number) > 0 /\ phone_number[1] = "+"

\* telegram_bot.py:192-193 and 581-582: start_command and handle_contact, the
\* two handlers that call handle_phone_number, put a '+' before a text without one
entry_phone(text) ==
    IF startswith_plus(text) THEN text ELSE <<"+">> \o text

\* the format check left out: every text is taken for a phone number
bad_phone_format_never(phone_number) == FALSE

\* telegram_bot.py:249
bad_phone_format(phone_number) ==
    ~startswith_plus(phone_number) \/ Len(phone_number) < 10

-----------------------------------------------------------------------------
(* The attempt limiter *)

\* the window test with <= in place of <
recent_attempts_le(chat_attempts, current_time) ==
    SelectSeq(chat_attempts, LAMBDA attempt : current_time - attempt <= block_duration)

\* telegram_bot.py:100, the list comprehension
recent_attempts(chat_attempts, current_time) ==
    SelectSeq(chat_attempts, LAMBDA attempt : current_time - attempt < block_duration)

\* the newest attempt in place of the oldest
SeqMax(s) == CHOOSE m \in {s[i] : i \in DOMAIN s} : \A i \in DOMAIN s : m >= s[i]

\* telegram_bot.py:106, min(chat_attempts)
SeqMin(s) == CHOOSE m \in {s[i] : i \in DOMAIN s} : \A i \in DOMAIN s : m <= s[i]

\* the threshold comparison with > in place of >=
limit_reached_gt(chat_attempts) == Len(chat_attempts) > max_attempts

\* the threshold left out: no list is ever full
limit_reached_never(chat_attempts) == FALSE

limit_reached(chat_attempts) == Len(chat_attempts) >= max_attempts

\* a check_ddos_protection that compacts the list of every chat
check_ddos_protection_sweeping(att, chat_id, current_time) ==
    LET chat_attempts == recent_attempts(att[chat_id], current_time)
        written == [c \in DOMAIN att |-> recent_attempts(att[c], current_time)]
    IN  IF limit_reached(chat_attempts)
        THEN LET oldest_attempt == SeqMin(chat_attempts)
                 time_until_unblock == block_duration - (current_time - oldest_attempt)
             IN  [attempts |-> written,
                  blocked |-> TRUE,
                  time_until_unblock |-> time_until_unblock,
                  minutes |-> time_until_unblock \div 60,
                  seconds |-> time_until_unblock % 60]
        ELSE [attempts |-> written,
              blocked |-> FALSE,
              time_until_unblock |-> 0,
              minutes |-> 0,
              seconds |-> 0]

\* a check_ddos_protection that leaves the list of the chat as it found it
check_ddos_protection_unwritten(att, chat_id, current_time) ==
    LET chat_attempts == recent_attempts(att[chat_id], current_time)
    IN  [attempts |-> att,
         blocked |-> limit_reached(chat_attempts),
         time_until_unblock |-> 0,
         minutes |-> 0,
         seconds |-> 0]

\* a check_ddos_protection that reports the time since the oldest attempt in
\* place of the time left
check_ddos_protection_elapsed(att, chat_id, current_time) ==
    LET chat_attempts == recent_attempts(att[chat_id], current_time)
        written == [att EXCEPT ![chat_id] = chat_attempts]
    IN  IF limit_reached(chat_attempts)
        THEN LET oldest_attempt == SeqMin(chat_attempts)
                 time_until_unblock == current_time - oldest_attempt
             IN  [attempts |-> written,
                  blocked |-> TRUE,
                  time_until_unblock |-> time_until_unblock,
                  minutes |-> time_until_unblock \div 60,
                  seconds |-> time_until_unblock % 60]
        ELSE [attempts |-> written,
              blocked |-> FALSE,
              time_until_unblock |-> 0,
              minutes |-> 0,
              seconds |-> 0]

\* a check_ddos_protection that records the request it blocks
check_ddos_protection_counting(att, chat_id, current_time) ==
    LET chat_attempts == recent_attempts(att[chat_id], current_time)
        written == [att EXCEPT ![chat_id] = chat_attempts]
    IN  IF limit_reached(chat_attempts)
        THEN LET oldest_attempt == SeqMin(chat_attempts)
                 time_until_unblock == block_duration - (current_time - oldest_attempt)
             IN  [attempts |-> [att EXCEPT ![chat_id] = Append(chat_attempts, current_time)],
                  blocked |-> TRUE,
                  time_until_unblock |-> time_until_unblock,
                  minutes |-> time_until_unblock \div 60,
                  seconds |-> time_until_unblock % 60]
        ELSE [attempts |-> written,
              blocked |-> FALSE,
              time_until_unblock |-> 0,
              minutes |-> 0,
              seconds |-> 0]

\* check_ddos_protection: the list it writes back and the dict it returns
check_ddos_protection(att, chat_id, current_time) ==
    LET chat_attempts == recent_attempts(att[chat_id], current_time)
        written == [att EXCEPT ![chat_id] = chat_attempts]
    IN  IF limit_reached(chat_attempts)
        THEN LET oldest_attempt == SeqMin(chat_attempts)
                 time_until_unblock == block_duration - (current_time - oldest_attempt)
             IN  [attempts |-> written,
                  blocked |-> TRUE,
                  time_until_unblock |-> time_until_unblock,
                  minutes |-> time_until_unblock \div 60,
                  seconds |-> time_until_unblock % 60]
        ELSE [attempts |-> written,
              blocked |-> FALSE,
              time_until_unblock |-> 0,
              minutes |-> 0,
              seconds |-> 0]

\* a record_attempt that appends nothing
record_attempt_skipped(att, chat_id, current_time) == att

\* a record_attempt that appends the timestamp twice
record_attempt_twice(att, chat_id, current_time) ==
    [att EXCEPT ![chat_id] = Append(Append(@, current_time), current_time)]

\* a record_attempt that writes to the list of another chat
record_attempt_elsewhere(att, chat_id, current_time) ==
    [att EXCEPT ![CHOOSE c \in DOMAIN att : c # chat_id] = Append(@, current_time)]

record_attempt(att, chat_id, current_time) ==
    [att EXCEPT ![chat_id] = Append(@, current_time)]


-----------------------------------------------------------------------------
(* JSON values as Python sees them after response.json(): a record with a  *)
(* type tag t and a value v.  A dict is a tuple of <<key, value>> pairs in *)
(* insertion order, a str is a tuple of characters.                        *)

JStr(s) == [t |-> "str", v |-> s]
JInt(n) == [t |-> "int", v |-> n]
JBool(b) == [t |-> "bool", v |-> b]
JFloat(n) == [t |-> "float", v |-> n]
JNull == [t |-> "null", v |-> 0]
JObj(kv) == [t |-> "obj", v |-> kv]
JArr(items) == [t |-> "arr", v |-> items]

\* bool(x) of a Python value
truthy(x) ==
    CASE x.t = "str" -> Len(x.v) > 0
      [] x.t = "int" -> x.v # 0
      [] x.t = "float" -> TRUE
      [] x.t = "bool" -> x.v
      [] x.t = "null" -> FALSE
      [] OTHER -> Len(x.v) > 0

\* key in d
dict_has(d, key) == \E i \in DOMAIN d.v : d.v[i][1] = key

\* d.get(key): None when the key is absent
dict_get(d, key) ==
    IF dict_has(d, key)
    THEN d.v[CHOOSE i \in DOMAIN d.v : d.v[i][1] = key][2]
    ELSE JNull

UpperLetters == <<"A", "B", "C", "D", "E", "F", "G", "H", "I", "J", "K", "L", "M", "N", "O", "P", "Q", "R", "S", "T", "U", "V", "W", "X", "Y", "Z">>
LowerLetters == <<"a", "b", "c", "d", "e", "f", "g", "h", "i", "j", "k", "l", "m", "n", "o", "p", "q", "r", "s", "t", "u", "v", "w", "x", "y", "z">>

lower_char(c) ==
    IF \E i \in DOMAIN UpperLetters : UpperLetters[i] = c
    THEN LowerLetters[CHOOSE i \in DOMAIN UpperLetters : UpperLetters[i] = c]
    ELSE c

\* str.lower()
lower(s) == [i \in DOMAIN s |-> lower_char(s[i])]

Digits == <<"0", "1", "2", "3", "4", "5", "6", "7", "8", "9">>

RECURSIVE nat_to_str(_)
nat_to_str(n) ==
    IF n < 10 THEN <<Digits[n + 1]>>
    ELSE Append(nat_to_str(n \div 10), Digits[(n % 10) + 1])

\* str(value) of a str, an int or a bool
py_str(x) ==
    CASE x.t = "str" -> x.v
      [] x.t = "int" -> IF x.v < 0 THEN <<"-">> \o nat_to_str(-x.v) ELSE nat_to_str(x.v)
      [] x.t = "bool" -> IF x.v THEN <<"T", "r", "u", "e">> ELSE <<"F", "a", "l", "s", "e">>

\* names of JSON keys
K_code == <<"c", "o", "d", "e">>
K_Code == <<"C", "o", "d", "e">>
K_otp == <<"o", "t", "p">>
K_OTP == <<"O", "T", "P">>
K_verificationCode == <<"v", "e", "r", "i", "f", "i", "c", "a", "t", "i", "o", "n", "C", "o", "d", "e">>
K_otpCode == <<"o", "t", "p", "C", "o", "d", "e">>
K_result == <<"r", "e", "s", "u", "l", "t">>
K_data == <<"d", "a", "t", "a">>
K_status == <<"s", "t", "a", "t", "u", "s">>
K_message == <<"m", "e", "s", "s", "a", "g", "e">>
K_accessToken == <<"a", "c", "c", "e", "s", "s", "T", "o", "k", "e", "n">>
K_refreshToken == <<"r", "e", "f", "r", "e", "s", "h", "T", "o", "k", "e", "n">>

\* place_and_play_agent.py:256
TARGET_KEYS == {K_code, K_verificationCode, K_otp, K_otpCode}

\* isinstance(value, (str, int)); bool is a subclass of int
is_str_or_int(x) == x.t \in {"str", "int", "bool"}

\* PlaceAndPlayAgent._find_code_in_payload: the str it returns, or None
RECURSIVE find_code_in_payload(_)
RECURSIVE find_in_items(_, _)
RECURSIVE find_in_list(_, _)

\* the dict loop from its i-th item on
find_in_items(kv, i) ==
    IF i > Len(kv) THEN JNull
    ELSE LET key == kv[i][1]
             value == kv[i][2]
         IN  IF lower(key) \in TARGET_KEYS /\ is_str_or_int(value)
             THEN JStr(py_str(value))
             ELSE LET found == find_code_in_payload(value)
                  IN  IF truthy(found) THEN found ELSE find_in_items(kv, i + 1)

\* the list loop from its i-th item on
find_in_list(items, i) ==
    IF i > Len(items) THEN JNull
    ELSE LET found == find_code_in_payload(items[i])
         IN  IF truthy(found) THEN found ELSE find_in_list(items, i + 1)

find_code_in_payload(payload) ==
    CASE payload.t = "obj" -> find_in_items(payload.v, 1)
      [] payload.t = "arr" -> find_in_list(payload.v, 1)
      [] OTHER -> JNull

-----------------------------------------------------------------------------
(* What the upstream API can answer.  A response is a network-level        *)
(* failure (requests raises a RequestException) or a status with a body;   *)
(* the body is a JSON value, or NotJSON when response.json() raises.       *)

\* v tells which exception response.json() raises: 0 a plain ValueError, 1 the
\* JSONDecodeError of requests >= 2.27, which is a RequestException
NotJSON == [t |-> "notjson", v |-> 0]
NotJSONRequestException == [t |-> "notjson", v |-> 1]
NetworkFailure == [net |-> TRUE, status |-> 0, body |-> NotJSON]
Http(status, body) == [net |-> FALSE, status |-> status, body |-> body]

S_7788 == <<"7", "7", "8", "8">>
S_4821 == <<"4", "8", "2", "1">>
S_access == <<"A">>
S_refresh == <<"R">>

\* bodies of the login endpoint
LoginBodyOk ==
    JObj(<< <<K_status, JInt(200)>>,
            <<K_result, JObj(<< <<K_accessToken, JStr(S_access)>>,
                                <<K_refreshToken, JStr(S_refresh)>> >>)>> >>)
LoginBodyNoTokens ==
    JObj(<< <<K_status, JInt(200)>>, <<K_result, JObj(<< >>)>> >>)
LoginBodyRefused ==
    JObj(<< <<K_status, JInt(401)>>, <<K_message, JStr(<<"n", "o">>)>> >>)

LoginResponses ==
    { Http(200, LoginBodyOk), Http(200, LoginBodyNoTokens), Http(200, LoginBodyRefused),
      Http(500, NotJSON), NetworkFailure }

\* bodies of the phoneNumberVerification endpoint
CodeBodyResult ==
    JObj(<< <<K_status, JInt(200)>>, <<K_result, JObj(<< <<K_code, JStr(S_7788)>> >>)>> >>)
CodeBodyNested ==
    JObj(<< <<K_result, JObj(<< <<K_data, JObj(<< <<K_otp, JStr(S_4821)>> >>)>> >>)>> >>)
CodeBodyInt == JObj(<< <<K_Code, JInt(1234)>> >>)
CodeBodyNone == JObj(<< <<K_status, JInt(200)>> >>)
CodeBodyEmpty == JObj(<< <<K_code, JStr(<< >>)>> >>)
CodeBodyCamel == JObj(<< <<K_verificationCode, JStr(S_7788)>> >>)
CodeBodyList == JArr(<< JObj(<< <<K_otp, JInt(0)>> >>) >>)

CodeBodies ==
    { CodeBodyResult, CodeBodyNested, CodeBodyInt, CodeBodyNone, CodeBodyEmpty,
      CodeBodyCamel, CodeBodyList, JNull, NotJSON }

CodeStatuses == {200, 201, 401, 403, 500}

CodeResponses ==
    {NetworkFailure} \cup { Http(st, b) : st \in CodeStatuses, b \in CodeBodies }

-----------------------------------------------------------------------------
(* Results: the dicts the operations return.  A key the dict does not      *)
(* carry is Absent; error is the tag string, None when there is none.      *)

Absent == [t |-> "absent", v |-> 0]

Result(success, error, code, phone_number, access_token, refresh_token) ==
    [success |-> success, error |-> error, code |-> code, phone_number |-> phone_number,
     access_token |-> access_token, refresh_token |-> refresh_token]

Failure(error) == Result(FALSE, error, Absent, Absent, Absent, Absent)

\* get_auth_tokens of the agent and of the bot (the two differ in messages only)
get_auth_tokens(response) ==
    IF response.net THEN Failure("NETWORK_ERROR")
    ELSE IF response.status = 200
    THEN LET response_data == response.body
         IN  IF response_data.t = "notjson"
             THEN (IF response_data.v = 1 THEN Failure("NETWORK_ERROR")
                   ELSE Failure("UNKNOWN_ERROR"))
             ELSE IF response_data.t # "obj" THEN Failure("UNKNOWN_ERROR")
             ELSE IF dict_get(response_data, K_status) = JInt(200)
                     /\ dict_has(response_data, K_result)
             THEN LET tokens == dict_get(response_data, K_result)
                  IN  IF tokens.t # "obj" THEN Failure("UNKNOWN_ERROR")
                      ELSE LET access_token == dict_get(tokens, K_accessToken)
                               refresh_token == dict_get(tokens, K_refreshToken)
                           IN  IF truthy(access_token) /\ truthy(refresh_token)
                               THEN Result(TRUE, None, Absent, Absent,
                                           access_token, refresh_token)
                               ELSE Failure("TOKENS_NOT_FOUND")
             ELSE Failure("INVALID_RESPONSE")
    ELSE Failure("LOGIN_API_ERROR")

\* PlaceAndPlayBot.request_verification_code: the dict it returns
RECURSIVE bot_scan_items(_, _)
\* telegram_bot.py:159-165, the loop from its i-th item on
bot_scan_items(kv, i) ==
    IF i > Len(kv) THEN JNull
    ELSE LET key == kv[i][1]
             value == kv[i][2]
         IN  IF key = K_code /\ truthy(value) THEN value
             ELSE IF value.t = "obj" /\ dict_has(value, K_code)
             THEN dict_get(value, K_code)
             ELSE bot_scan_items(kv, i + 1)

bot_code_result(code) ==
    IF truthy(code)
    THEN Result(TRUE, None, code, Absent, Absent, Absent)
    ELSE Failure("CODE_NOT_FOUND")

bot_request_verification_code(response) ==
    IF response.net THEN Failure("NETWORK_ERROR")
    ELSE IF response.status = 200
    THEN LET response_data == response.body
         IN  IF response_data.t = "notjson"
             THEN (IF response_data.v = 1 THEN Failure("NETWORK_ERROR")
                   ELSE Failure("UNKNOWN_ERROR"))
             ELSE IF response_data.t # "obj" THEN Failure("UNKNOWN_ERROR")
             ELSE IF dict_get(response_data, K_status) = JInt(200)
                     /\ dict_has(response_data, K_result)
             THEN LET result == dict_get(response_data, K_result)
                  IN  IF result.t # "obj" THEN Failure("UNKNOWN_ERROR")
                      ELSE bot_code_result(dict_get(result, K_code))
             ELSE IF dict_has(response_data, K_code)
             THEN bot_code_result(dict_get(response_data, K_code))
             ELSE bot_code_result(bot_scan_items(response_data.v, 1))
    ELSE Failure("API_ERROR")

-----------------------------------------------------------------------------
(* The session token: jwt.encode / jwt.decode of PyJWT 2 with HS256.       *)
(*                                                                         *)
(* A token is its three segments: the header, the claims, and the          *)
(* signature.  The MAC is ideal: a signature is the key and the content it *)
(* was made over, so two signatures agree only when both agree.  The       *)
(* signature segment is 43 base64url characters for 256 bits: pad is the   *)
(* value of the two bits of its last character that carry no data.  The    *)
(* encoder writes 0 there and base64.urlsafe_b64decode drops them.         *)

\* signing secrets: JWT_SECRET of the environment, or secrets.token_urlsafe(32)
Secrets == {"k1", "k2"}

\* place_and_play_agent.py:60, timedelta(hours=24) in seconds
token_lifetime == 86400

S_verification == <<"v", "e", "r", "i", "f", "i", "c", "a", "t", "i", "o", "n">>
S_session == <<"s", "e", "s", "s", "i", "o", "n">>

PyDatetime(n) == [t |-> "datetime", v |-> n]

\* jwt.encode turns the datetime of a time claim into integer seconds
numeric_date(x) == IF x.t = "datetime" THEN JInt(x.v) ELSE x

Claims(phone_number, access_token, refresh_token, exp, iat, type) ==
    [phone_number |-> phone_number, access_token |-> access_token,
     refresh_token |-> refresh_token, exp |-> exp, iat |-> iat, type |-> type]

Hs256Header == [alg |-> "HS256", typ |-> "JWT"]

\* a signature that does not depend on the key
Sign_keyless(key, hdr, claims) == [key |-> "any", hdr |-> hdr, claims |-> claims]

Sign(key, hdr, claims) == [key |-> key, hdr |-> hdr, claims |-> claims]

\* jwt.encode(payload, key, algorithm='HS256')
jwt_encode(payload, key) ==
    LET claims == [payload EXCEPT !.exp = numeric_date(@), !.iat = numeric_date(@)]
    IN  [segments |-> 3, hdr |-> Hs256Header, claims |-> claims,
         sig |-> Sign(key, Hs256Header, claims), pad |-> 0]

\* a decoder that does not check exp
exp_never_elapsed(exp, utcnow) == FALSE

\* PyJWT's check of the exp claim: expired when exp <= now
exp_elapsed(exp, utcnow) == exp <= utcnow

\* jwt.decode(jwt_token, key, algorithms=['HS256']): the payload, or the
\* exception it raises
jwt_decode(jwt_token, key, utcnow) ==
    IF jwt_token.segments # 3 THEN [exc |-> "DecodeError"]
    ELSE IF jwt_token.hdr.alg # "HS256" THEN [exc |-> "InvalidAlgorithmError"]
    ELSE IF jwt_token.sig # Sign(key, jwt_token.hdr, jwt_token.claims)
    THEN [exc |-> "InvalidSignatureError"]
    ELSE IF jwt_token.claims.exp.t \notin {"int", "absent"} THEN [exc |-> "DecodeError"]
    ELSE IF jwt_token.claims.exp.t = "int" /\ exp_elapsed(jwt_token.claims.exp.v, utcnow)
    THEN [exc |-> "ExpiredSignatureError"]
    ELSE [exc |-> None, payload |-> jwt_token.claims]

\* a validation that does not look at the type claim
type_unchecked(payload) == TRUE

\* place_and_play_agent.py:104
type_is_verification(payload) == payload.type = JStr(S_verification)

\* x.isoformat() exists for a datetime only
has_isoformat(x) == x.t = "datetime"

TokenFailure(error) ==
    [success |-> FALSE, error |-> error, phone_number |-> Absent,
     access_token |-> Absent, refresh_token |-> Absent, expires_at |-> Absent]

\* PlaceAndPlayAgent.validate_verification_token: the dict it returns
validate_verification_token(jwt_token, key, utcnow) ==
    LET decoded == jwt_decode(jwt_token, key, utcnow)
    IN  IF decoded.exc = "ExpiredSignatureError" THEN TokenFailure("TOKEN_EXPIRED")
        ELSE IF decoded.exc # None THEN TokenFailure("INVALID_TOKEN")
        ELSE LET payload == decoded.payload
             IN  IF ~type_is_verification(payload) THEN TokenFailure("INVALID_TOKEN_TYPE")
                 \* payload['exp'] of an absent key is a KeyError, .isoformat() of
                 \* an int an AttributeError: both end in the last except clause
                 ELSE IF payload.exp.t = "absent" \/ ~has_isoformat(payload.exp)
                 THEN TokenFailure("VALIDATION_ERROR")
                 ELSE IF utcnow > payload.exp.v THEN TokenFailure("TOKEN_EXPIRED")
                 ELSE IF Absent \in {payload.phone_number, payload.access_token,
                                     payload.refresh_token}
                 THEN TokenFailure("VALIDATION_ERROR")
                 ELSE [success |-> TRUE, error |-> None,
                       phone_number |-> payload.phone_number,
                       access_token |-> payload.access_token,
                       refresh_token |-> payload.refresh_token,
                       expires_at |-> payload.exp]

\* PlaceAndPlayAgent.generate_verification_link: the dict it returns; the
\* clock is read twice, for exp and then for iat
generate_verification_link(phone_number, access_token, refresh_token, bot_username, key, utcnow_exp, utcnow_iat) ==
    LET payload == Claims(JStr(phone_number), access_token, refresh_token,
                          PyDatetime(utcnow_exp + token_lifetime),
                          PyDatetime(utcnow_iat), JStr(S_verification))
        jwt_token == jwt_encode(payload, key)
    IN  [success |-> TRUE,
         verification_link |-> [bot |-> bot_username, start |-> jwt_token],
         jwt_token |-> jwt_token,
         phone_number |-> JStr(phone_number),
         expires_at |-> payload.exp,
         key |-> key]

-----------------------------------------------------------------------------
(* The agent's operations.  Each runs to its return without giving up      *)
(* control (requests is synchronous), so each is one step; trace lists the *)
(* calls it made to the upstream API and to Telegram, in order.            *)

NoHeaders == [accessToken |-> Absent, refreshToken |-> Absent]

Event(ev, chat_id, what, phone_number, headers) ==
    [ev |-> ev, chat_id |-> chat_id, what |-> what, phone_number |-> phone_number,
     headers |-> headers]

\* requests.post(login_url, ...)
LoginCall == Event("login", 0, None, Absent, NoHeaders)

\* place_and_play_agent.py:358-369: the token headers are set when truthy
code_request_headers(access_token, refresh_token) ==
    [accessToken |-> IF truthy(access_token) THEN access_token ELSE Absent,
     refreshToken |-> IF truthy(refresh_token) THEN refresh_token ELSE Absent]

\* requests.get(url, params=params, headers=headers, timeout=30)
CodeCall(phone_number, access_token, refresh_token) ==
    Event("code", 0, None, JStr(phone_number),
          code_request_headers(access_token, refresh_token))

\* send_telegram_message(chat_id, message): what names the message; delivery is
\* what became of it (sent, refused by Telegram, an exception caught inside)
SendCall(chat_id, what, delivery) ==
    Event("send", chat_id, what, Absent, NoHeaders) @@ [delivery |-> delivery]

Deliveries == {"sent", "refused", "exception"}

\* a request_verification_code without the branch for status 401
request_verification_code_no401(phone_number, access_token, refresh_token, response) ==
    IF response.net
    THEN Result(FALSE, "NETWORK_ERROR", Absent, JStr(phone_number), Absent, Absent)
    ELSE IF response.status = 200
    THEN LET result_json == IF response.body.t = "notjson" THEN JObj(<< >>)
                            ELSE response.body
             code == find_code_in_payload(result_json)
         IN  IF truthy(code)
             THEN Result(TRUE, None, code, JStr(phone_number), Absent, Absent)
             ELSE Result(FALSE, "CODE_NOT_FOUND", Absent, JStr(phone_number), Absent, Absent)
    ELSE Result(FALSE, "API_ERROR", Absent, JStr(phone_number), Absent, Absent)

\* PlaceAndPlayAgent.request_verification_code: the dict it returns
\* a request_verification_code that looks for the code in every 2xx answer
request_verification_code_2xx(phone_number, access_token, refresh_token, response) ==
    IF response.net
    THEN Result(FALSE, "NETWORK_ERROR", Absent, JStr(phone_number), Absent, Absent)
    ELSE IF response.status \in 200..299
    THEN LET result_json == IF response.body.t = "notjson" THEN JObj(<< >>)
                            ELSE response.body
             code == find_code_in_payload(result_json)
         IN  IF truthy(code)
             THEN Result(TRUE, None, code, JStr(phone_number), Absent, Absent)
             ELSE Result(FALSE, "CODE_NOT_FOUND", Absent, JStr(phone_number), Absent, Absent)
    ELSE IF response.status = 401
    THEN Result(FALSE, "AUTH_ERROR", Absent, JStr(phone_number), Absent, Absent)
    ELSE Result(FALSE, "API_ERROR", Absent, JStr(phone_number), Absent, Absent)

request_verification_code(phone_number, access_token, refresh_token, response) ==
    IF response.net
    THEN Result(FALSE, "NETWORK_ERROR", Absent, JStr(phone_number), Absent, Absent)
    ELSE IF response.status = 200
    THEN LET result_json == IF response.body.t = "notjson" THEN JObj(<< >>)
                            ELSE response.body
             code == find_code_in_payload(result_json)
         IN  IF truthy(code)
             THEN Result(TRUE, None, code, JStr(phone_number), Absent, Absent)
             ELSE Result(FALSE, "CODE_NOT_FOUND", Absent, JStr(phone_number), Absent, Absent)
    ELSE IF response.status = 401
    THEN Result(FALSE, "AUTH_ERROR", Absent, JStr(phone_number), Absent, Absent)
    ELSE Result(FALSE, "API_ERROR", Absent, JStr(phone_number), Absent, Absent)

\* the message process_verification_request and process_verification_from_token
\* send for a code result
code_message(api_result) ==
    IF api_result.success /\ truthy(api_result.code) THEN "code"
    ELSE IF api_result.error = "AUTH_ERROR" THEN "auth_error"
    ELSE "request_error"

\* place_and_play_agent.py:473-520: the message process_verification_automatically
\* sends for a code result; its text for AUTH_ERROR ends with the advice of the
\* other failures
auto_code_message(verification_result) ==
    IF verification_result.success /\ truthy(verification_result.code) THEN "code"
    ELSE IF verification_result.error = "AUTH_ERROR" THEN "auth_error_retry"
    ELSE "request_error"

\* telegram_bot.py:331-343: the reply of handle_phone_number to a failed code
\* request; both texts end with "try later" and the support contact
bot_error_message(error_type) ==
    IF error_type = "AUTH_ERROR" THEN "auth_error_retry" ELSE "request_error"

\* what the last line of a message tells the user to do
advice(what) ==
    CASE what = "code" -> "enter_code"
      [] what = "auth_error" -> "reauthenticate"
      [] what = "token_error" -> "new_link"
      [] what = "blocked" -> "wait"
      [] what = "bad_format" -> "fix_number"
      [] OTHER -> "retry_later"

\* a process_verification_request that fails when its message is not delivered
process_verification_request_strict(chat_id, phone_number, access_token, refresh_token, response, delivery) ==
    LET api_result == request_verification_code(phone_number, access_token,
                                                refresh_token, response)
    IN  [trace |-> << CodeCall(phone_number, access_token, refresh_token),
                      SendCall(chat_id, code_message(api_result), delivery) >>,
         api_result |-> api_result,
         result |-> IF api_result.success /\ truthy(api_result.code)
                       /\ delivery = "sent"
                    THEN Result(TRUE, None, api_result.code, Absent, Absent, Absent)
                    ELSE IF api_result.success
                    THEN Result(FALSE, "DELIVERY_ERROR", Absent, Absent, Absent, Absent)
                    ELSE Result(FALSE, api_result.error, Absent, Absent, Absent, Absent)]

\* a process_verification_request that sends its failure message a second time
process_verification_request_resend(chat_id, phone_number, access_token, refresh_token, response, delivery) ==
    LET api_result == request_verification_code(phone_number, access_token,
                                                refresh_token, response)
    IN  IF api_result.success /\ truthy(api_result.code)
        THEN [trace |-> << CodeCall(phone_number, access_token, refresh_token),
                           SendCall(chat_id, "code", delivery) >>,
              api_result |-> api_result,
              result |-> Result(TRUE, None, api_result.code, Absent, Absent, Absent)]
        ELSE [trace |-> << CodeCall(phone_number, access_token, refresh_token),
                           SendCall(chat_id, code_message(api_result), delivery),
                           SendCall(chat_id, code_message(api_result), delivery) >>,
              api_result |-> api_result,
              result |-> Result(FALSE, api_result.error, Absent, Absent, Absent, Absent)]

\* PlaceAndPlayAgent.process_verification_request: its calls and its return
process_verification_request(chat_id, phone_number, access_token, refresh_token, response, delivery) ==
    LET api_result == request_verification_code(phone_number, access_token,
                                                refresh_token, response)
    IN  [trace |-> << CodeCall(phone_number, access_token, refresh_token),
                      SendCall(chat_id, code_message(api_result), delivery) >>,
         api_result |-> api_result,
         result |-> IF api_result.success /\ truthy(api_result.code)
                    THEN Result(TRUE, None, api_result.code, Absent, Absent, Absent)
                    ELSE Result(FALSE, api_result.error, Absent, Absent, Absent, Absent)]

\* a process_verification_automatically that calls the login endpoint again
\* after a failure
process_verification_automatically_retry(phone_number, chat_id, login_response, response, delivery) ==
    LET tokens_result == get_auth_tokens(login_response)
    IN  IF ~tokens_result.success
        THEN [trace |-> << LoginCall, LoginCall,
                           SendCall(chat_id, "tokens_error", delivery) >>,
              api_result |-> Absent,
              result |-> tokens_result]
        ELSE LET verification_result ==
                     request_verification_code(phone_number, tokens_result.access_token,
                                               tokens_result.refresh_token, response)
             IN  [trace |-> << LoginCall,
                               CodeCall(phone_number, tokens_result.access_token,
                                        tokens_result.refresh_token),
                               SendCall(chat_id, auto_code_message(verification_result),
                                        delivery) >>,
                  api_result |-> verification_result,
                  result |-> verification_result]

\* a process_verification_automatically that makes its code request without the
\* tokens of its login
process_verification_automatically_bare(phone_number, chat_id, login_response, response, delivery) ==
    LET tokens_result == get_auth_tokens(login_response)
    IN  IF ~tokens_result.success
        THEN [trace |-> << LoginCall, SendCall(chat_id, "tokens_error", delivery) >>,
              api_result |-> Absent,
              result |-> tokens_result]
        ELSE LET verification_result ==
                     request_verification_code(phone_number, JNull, JNull, response)
             IN  [trace |-> << LoginCall,
                               CodeCall(phone_number, JNull, JNull),
                               SendCall(chat_id, auto_code_message(verification_result),
                                        delivery) >>,
                  api_result |-> verification_result,
                  result |-> IF verification_result.success
                                /\ truthy(verification_result.code)
                             THEN Result(TRUE, None, verification_result.code,
                                         JStr(phone_number), Absent, Absent)
                             ELSE verification_result]

\* PlaceAndPlayAgent.process_verification_automatically: its calls and its return
process_verification_automatically(phone_number, chat_id, login_response, response, delivery) ==
    LET tokens_result == get_auth_tokens(login_response)
    IN  IF ~tokens_result.success
        THEN [trace |-> << LoginCall, SendCall(chat_id, "tokens_error", delivery) >>,
              api_result |-> Absent,
              result |-> tokens_result]
        ELSE LET verification_result ==
                     request_verification_code(phone_number, tokens_result.access_token,
                                               tokens_result.refresh_token, response)
             IN  [trace |-> << LoginCall,
                               CodeCall(phone_number, tokens_result.access_token,
                                        tokens_result.refresh_token),
                               SendCall(chat_id, auto_code_message(verification_result),
                                        delivery) >>,
                  api_result |-> verification_result,
                  result |-> IF verification_result.success
                                /\ truthy(verification_result.code)
                             THEN Result(TRUE, None, verification_result.code,
                                         JStr(phone_number), Absent, Absent)
                             ELSE verification_result]

\* a process_verification_from_token that reports a rejected token as its own
\* internal error
process_verification_from_token_internal(jwt_token, chat_id, key, utcnow, response, delivery) ==
    LET token_validation == validate_verification_token(jwt_token, key, utcnow)
    IN  IF ~token_validation.success
        THEN [trace |-> << SendCall(chat_id, "internal_error", delivery) >>,
              api_result |-> Absent,
              result |-> Result(FALSE, "INTERNAL_ERROR", Absent, Absent, Absent, Absent)]
        ELSE LET phone_number == token_validation.phone_number.v
                 api_result == request_verification_code(phone_number,
                                   token_validation.access_token,
                                   token_validation.refresh_token, response)
             IN  [trace |-> << CodeCall(phone_number, token_validation.access_token,
                                        token_validation.refresh_token),
                               SendCall(chat_id, code_message(api_result), delivery) >>,
                  api_result |-> api_result,
                  result |-> Result(api_result.success, api_result.error,
                                    api_result.code, JStr(phone_number), Absent, Absent)]

\* PlaceAndPlayAgent.process_verification_from_token: its calls and its return
process_verification_from_token(jwt_token, chat_id, key, utcnow, response, delivery) ==
    LET token_validation == validate_verification_token(jwt_token, key, utcnow)
    IN  IF ~token_validation.success
        THEN [trace |-> << SendCall(chat_id, "token_error", delivery) >>,
              api_result |-> Absent,
              result |-> Result(FALSE, token_validation.error, Absent, Absent, Absent,
                                Absent)]
        ELSE LET phone_number == token_validation.phone_number.v
                 access_token == token_validation.access_token
                 refresh_token == token_validation.refresh_token
                 api_result == request_verification_code(phone_number, access_token,
                                                         refresh_token, response)
             IN  [trace |-> << CodeCall(phone_number, access_token, refresh_token),
                               SendCall(chat_id, code_message(api_result), delivery) >>,
                  api_result |-> api_result,
                  result |-> IF api_result.success /\ truthy(api_result.code)
                             THEN Result(TRUE, None, api_result.code,
                                         JStr(phone_number), Absent, Absent)
                             ELSE Result(FALSE, api_result.error, Absent,
                                         JStr(phone_number), Absent, Absent)]

-----------------------------------------------------------------------------
(* The bot's handle_phone_number runs.  A coroutine gives up control only  *)
(* at an await, so each action is the code between two awaits.             *)

NoRun == [op |-> "none"]
NoToken == [t |-> "none"]

IdleRun ==
    [pc |-> "idle", chat_id |-> 0, phone_number |-> << >>, trace |-> << >>,
     outcome |-> None, error |-> None, message |-> None, code |-> Absent,
     access_token |-> Absent, refresh_token |-> Absent,
     login_response |-> Absent, headers |-> NoHeaders, response |-> Absent]

NoCheck == [chat_id |-> 0]

\* how many attempts of the chat are younger than the block window at time t
InWindowCount(att, chat_id, t) ==
    Cardinality({ i \in DOMAIN att[chat_id] : t - att[chat_id][i] < block_duration })

\* the run of slot s returns
Return(s, run) ==
    /\ bruns' = [bruns EXCEPT ![s] = IdleRun]
    /\ bdone' = [run EXCEPT !.pc = "done"]

\* update.message.reply_text, processing_msg.edit_text and processing_msg.delete
\* of python-telegram-bot return when Telegram took the call and raise a
\* TelegramError when it did not
BotDeliveries == {"sent", "raises"}

\* what the calls of the try statement did and, when one of them raised, what
\* the calls of its except clause did
TryDeliveries == {<<"sent">>, <<"raises", "sent">>, <<"raises", "raises">>}

\* telegram_bot.py:345-355: the except clause of handle_phone_number deletes the
\* processing message and replies; it has no handler of its own, so a call
\* that raises there leaves handle_phone_number
Internal(s, run, recovery) ==
    IF recovery = "sent"
    THEN Return(s, [run EXCEPT !.outcome = "Failed",
                               !.message = "internal_error",
                               !.trace = @ \o <<"raise", "reply">>])
    ELSE Return(s, [run EXCEPT !.outcome = "Escaped",
                               !.trace = @ \o <<"raise", "raise">>])

\* telegram_bot.py:239, 250, 267: the replies made before the try statement
Escape(s, run) ==
    Return(s, [run EXCEPT !.outcome = "Escaped", !.trace = Append(@, "raise")])

\* telegram_bot.py:190-207 or 577-603, then 226-272: the entry handler and
\* handle_phone_number up to the first await of an accepted run, or the whole of
\* a blocked or ill-formed one
HandlePhoneNumber(s, chat_id, text, delivery) ==
    /\ bruns[s].pc = "idle"
    /\ LET phone_number == entry_phone(text)
           ddos_check == check_ddos_protection(attempts, chat_id, now)
           run == [IdleRun EXCEPT !.chat_id = chat_id, !.phone_number = phone_number]
       IN  /\ ddos' = [chat_id |-> chat_id,
                       blocked |-> ddos_check.blocked,
                       time_until_unblock |-> ddos_check.time_until_unblock,
                       minutes |-> ddos_check.minutes,
                       seconds |-> ddos_check.seconds,
                       before |-> attempts[chat_id],
                       retained |-> ddos_check.attempts[chat_id]]
           /\ IF ddos_check.blocked
              THEN /\ attempts' = ddos_check.attempts
                   /\ IF delivery = "sent"
                      THEN Return(s, [run EXCEPT !.outcome = "Blocked",
                                               !.message = "blocked",
                                               !.trace = <<"check", "reply">>])
                      ELSE Escape(s, [run EXCEPT !.trace = <<"check">>])
                   /\ UNCHANGED passes
              ELSE IF bad_phone_format(phone_number)
              THEN /\ attempts' = ddos_check.attempts
                   /\ IF delivery = "sent"
                      THEN Return(s, [run EXCEPT !.outcome = "BadFormat",
                                               !.message = "bad_format",
                                               !.trace = <<"check", "reply">>])
                      ELSE Escape(s, [run EXCEPT !.trace = <<"check">>])
                   /\ UNCHANGED passes
              ELSE /\ attempts' = record_attempt(ddos_check.attempts, chat_id, now)
                   /\ passes' = [passes EXCEPT ![chat_id] = Append(@, now)]
                   /\ IF delivery = "sent"
                      THEN /\ bruns' = [bruns EXCEPT ![s] =
                                  [run EXCEPT !.pc = "tokens",
                                              !.trace = <<"check", "record", "reply">>]]
                           /\ bdone' = IdleRun
                      ELSE Escape(s, [run EXCEPT !.trace = <<"check", "record">>])
    /\ arun' = NoRun /\ vres' = NoRun
    /\ UNCHANGED <<now, jwt_secret, issued>>

\* telegram_bot.py:274-302: the login call and what follows it
BotAcquireTokens(s, response, deliveries) ==
    /\ bruns[s].pc = "tokens"
    /\ LET tokens_result == get_auth_tokens(response)
           run == [bruns[s] EXCEPT !.trace = Append(@, "login"),
                                   !.login_response = response]
       IN  IF deliveries[1] # "sent"
           THEN Internal(s, run, deliveries[2])
           ELSE IF ~tokens_result.success
           THEN Return(s, [run EXCEPT !.outcome = "Failed",
                                      !.error = tokens_result.error,
                                      !.message = "tokens_error",
                                      !.trace = Append(@, "reply")])
           ELSE /\ bruns' = [bruns EXCEPT ![s] =
                       [run EXCEPT !.pc = "code",
                                   !.access_token = tokens_result.access_token,
                                   !.refresh_token = tokens_result.refresh_token]]
                /\ bdone' = IdleRun
    /\ ddos' = NoCheck /\ arun' = NoRun /\ vres' = NoRun
    /\ UNCHANGED <<now, attempts, passes, jwt_secret, issued>>

\* telegram_bot.py:304-343: the code request and the reply
BotRequestCode(s, response, deliveries) ==
    /\ bruns[s].pc = "code"
    /\ LET verification_result == bot_request_verification_code(response)
           \* telegram_bot.py:130-133: the headers of the code request
           run == [bruns[s] EXCEPT !.trace = Append(@, "code"),
                                   !.response = response,
                                   !.headers = [accessToken |-> bruns[s].access_token,
                                                refreshToken |-> bruns[s].refresh_token]]
       IN  IF deliveries[1] # "sent"
           THEN Internal(s, run, deliveries[2])
           ELSE IF verification_result.success /\ truthy(verification_result.code)
           THEN Return(s, [run EXCEPT !.outcome = "Delivered",
                                      !.message = "code",
                                      !.code = verification_result.code,
                                      !.trace = Append(@, "reply")])
           ELSE Return(s, [run EXCEPT !.outcome = "Failed",
                                      !.error = verification_result.error,
                                      !.message =
                                          bot_error_message(verification_result.error),
                                      !.trace = Append(@, "reply")])
    /\ ddos' = NoCheck /\ arun' = NoRun /\ vres' = NoRun
    /\ UNCHANGED <<now, attempts, passes, jwt_secret, issued>>

\* telegram_bot.py:503-517: /status of an administrator compacts every list
StatusCommand ==
    /\ attempts' = [c \in ChatIds |-> recent_attempts(attempts[c], now)]
    /\ ddos' = NoCheck /\ bdone' = IdleRun /\ arun' = NoRun /\ vres' = NoRun
    /\ UNCHANGED <<now, bruns, passes, jwt_secret, issued>>

\* time passes: the next clock reading is a later one of the instants
TickTo(instants) ==
    /\ \E t \in instants :
          /\ t > now
          /\ now' = t
          /\ passes' = [c \in ChatIds |->
                            SelectSeq(passes[c], LAMBDA p : t - p < block_duration)]
    /\ ddos' = NoCheck /\ bdone' = IdleRun /\ arun' = NoRun /\ vres' = NoRun
    /\ UNCHANGED <<attempts, bruns, jwt_secret, issued>>

Tick == TickTo(Instants)

-----------------------------------------------------------------------------
(* The agent's steps *)

Quiet == ddos' = NoCheck /\ bdone' = IdleRun

AgentRun(op, chat_id, phone_number, access_token, refresh_token, jwt_token, login_response, response, out) ==
    [op |-> op, chat_id |-> chat_id, phone_number |-> phone_number,
     access_token |-> access_token, refresh_token |-> refresh_token,
     jwt_token |-> jwt_token, login_response |-> login_response,
     response |-> response, trace |-> out.trace, api_result |-> out.api_result,
     result |-> out.result]

\* POST /api/v1/requestCode
ProcessVerificationRequest(chat_id, phone_number, access_token, refresh_token, response, delivery) ==
    /\ arun = NoRun
    /\ arun' = AgentRun("process_verification_request", chat_id, JStr(phone_number),
                        access_token, refresh_token, NoToken, Absent, response,
                        process_verification_request(chat_id, phone_number, access_token,
                                                     refresh_token, response, delivery))
    /\ Quiet /\ vres' = NoRun
    /\ UNCHANGED <<now, attempts, bruns, passes, jwt_secret, issued>>

\* POST /api/v1/requestCodeAuto
ProcessVerificationAutomatically(phone_number, chat_id, login_response, response, delivery) ==
    /\ arun = NoRun
    /\ get_auth_tokens(login_response).success \/ response = NetworkFailure
    /\ arun' = AgentRun("process_verification_automatically", chat_id,
                        JStr(phone_number), Absent, Absent, NoToken, login_response,
                        IF get_auth_tokens(login_response).success THEN response
                        ELSE Absent,
                        process_verification_automatically(phone_number, chat_id,
                            login_response, response, delivery))
    /\ Quiet /\ vres' = NoRun
    /\ UNCHANGED <<now, attempts, bruns, passes, jwt_secret, issued>>

\* POST /api/v1/verifyFromToken
ProcessVerificationFromToken(jwt_token, chat_id, response, delivery) ==
    /\ arun = NoRun
    /\ validate_verification_token(jwt_token, jwt_secret, now).success
           \/ response = NetworkFailure
    /\ arun' = AgentRun("process_verification_from_token", chat_id, Absent, Absent,
                        Absent, jwt_token, Absent,
                        IF validate_verification_token(jwt_token, jwt_secret, now).success
                        THEN response ELSE Absent,
                        process_verification_from_token(jwt_token, chat_id, jwt_secret,
                            now, response, delivery))
    /\ Quiet /\ vres' = NoRun
    /\ UNCHANGED <<now, attempts, bruns, passes, jwt_secret, issued>>

\* the server answers the request with the result of the run
Respond ==
    /\ arun # NoRun
    /\ arun' = NoRun
    /\ UNCHANGED <<now, attempts, bruns, passes, ddos, bdone, jwt_secret, issued, vres>>

BotUsername == "PlaceAndPlayBot"

\* The instants at which the agent reads the clock: the first two seconds and
\* the last one of every token lifetime.
CodecInstants ==
    { k * token_lifetime + o : k \in 0..MaxDays, o \in {0, 1, token_lifetime - 1} }

\* POST /api/v1/generateLink; the clock moves on by d seconds between the two
\* reads of datetime.utcnow()
GenerateLink(phone_number, access_token, refresh_token, d) ==
    /\ now + d \in CodecInstants
    /\ issued' = generate_verification_link(phone_number, access_token, refresh_token,
                                            BotUsername, jwt_secret, now, now + d)
    /\ now' = now + d
    /\ Quiet /\ arun' = NoRun /\ vres' = NoRun
    /\ UNCHANGED <<attempts, bruns, passes, jwt_secret>>

\* what a holder of a token, who has no signing secret of the agent, can make of it
Tampered(jwt_token) ==
    { [jwt_token EXCEPT !.segments = 2],
      [jwt_token EXCEPT !.hdr.alg = "none"],
      [jwt_token EXCEPT !.hdr.typ = "jwt"],
      [jwt_token EXCEPT !.claims.phone_number = JStr(ShortPhone)],
      [jwt_token EXCEPT !.claims.type = JStr(S_session)],
      [jwt_token EXCEPT !.claims.exp = JInt(@.v + token_lifetime)],
      [jwt_token EXCEPT !.sig.key = "attacker"],
      [jwt_token EXCEPT !.claims.exp = JInt(@.v + token_lifetime),
                        !.sig = Sign("attacker", jwt_token.hdr,
                                     [jwt_token.claims EXCEPT
                                         !.exp = JInt(@.v + token_lifetime)])] }
    \cup { [jwt_token EXCEPT !.pad = p] : p \in 1..3 }

\* tokens signed with the secret of the running agent that
\* generate_verification_link does not make
Forged(key, utcnow) ==
    { jwt_encode(Claims(JStr(ValidPhone), JStr(S_access), JStr(S_refresh), exp,
                        PyDatetime(utcnow), type), key) :
        exp \in {PyDatetime(utcnow + token_lifetime), PyDatetime(utcnow), Absent},
        type \in {JStr(S_verification), JStr(S_session), Absent} }

Validation(origin, jwt_token) ==
    [op |-> "validate_verification_token", origin |-> origin, token |-> jwt_token,
     result |-> validate_verification_token(jwt_token, jwt_secret, now)]

\* validate_verification_token of the token of the last link
ValidateIssued ==
    /\ issued # NoToken
    /\ vres' = Validation("issued", issued.jwt_token)
    /\ Quiet /\ arun' = NoRun
    /\ UNCHANGED <<now, attempts, bruns, passes, jwt_secret, issued>>

\* validate_verification_token of a modification of that token
ValidateTampered(jwt_token) ==
    /\ issued # NoToken
    /\ jwt_token \in Tampered(issued.jwt_token)
    /\ vres' = Validation("tampered", jwt_token)
    /\ Quiet /\ arun' = NoRun
    /\ UNCHANGED <<now, attempts, bruns, passes, jwt_secret, issued>>

\* validate_verification_token of another token signed with the agent's secret
ValidateForged(jwt_token) ==
    /\ jwt_token \in Forged(jwt_secret, now)
    /\ vres' = Validation("forged", jwt_token)
    /\ Quiet /\ arun' = NoRun
    /\ UNCHANGED <<now, attempts, bruns, passes, jwt_secret, issued>>

\* The agent is created again (place_and_play_agent.py:32): the secret is the
\* JWT_SECRET of the environment, or a new random one when there is none.
Restart ==
    /\ jwt_secret' \in Secrets
    /\ Quiet /\ arun' = NoRun /\ vres' = NoRun
    /\ UNCHANGED <<now, attempts, bruns, passes, issued>>

TickCodec == TickTo(CodecInstants)

-----------------------------------------------------------------------------

Init ==
    /\ now = 0
    /\ attempts = [c \in ChatIds |-> << >>]
    /\ bruns = [s \in Slots |-> IdleRun]
    /\ passes = [c \in ChatIds |-> << >>]
    /\ ddos = NoCheck
    /\ bdone = IdleRun
    /\ arun = NoRun
    /\ jwt_secret = "k1"
    /\ issued = NoToken
    /\ vres = NoRun

BotLoginResponses == {Http(200, LoginBodyOk), Http(500, NotJSON)}
BotCodeResponses == {Http(200, CodeBodyResult), Http(401, NotJSON)}

\* The application is built without concurrent_updates (telegram_bot.py:629),
\* so it handles one update at a time: one handle_phone_number run is in flight.
\* Two chats use the bot and Telegram takes every call; the runs in which it
\* does not are those of the specifications of one chat below.
Next ==
    \/ \E c \in ChatIds, p \in Phones : HandlePhoneNumber(1, c, p, "sent")
    \/ \E r \in BotLoginResponses : BotAcquireTokens(1, r, <<"sent">>)
    \/ \E r \in BotCodeResponses : BotRequestCode(1, r, <<"sent">>)
    \/ StatusCommand
    \/ Tick

Spec == Init /\ [][Next]_vars

\* The same bot with updates handled concurrently: the runs of one chat
\* interleave at their awaits.
NextConcurrent ==
    \/ \E s \in Slots, p \in Phones, d \in BotDeliveries : HandlePhoneNumber(s, 1, p, d)
    \/ \E s \in Slots, r \in BotLoginResponses, d \in TryDeliveries :
          BotAcquireTokens(s, r, d)
    \/ \E s \in Slots, r \in BotCodeResponses, d \in TryDeliveries :
          BotRequestCode(s, r, d)
    \/ StatusCommand
    \/ Tick

SpecConcurrent == Init /\ [][NextConcurrent]_vars

\* The sequential bot and one chat, with the clock read second by second
\* around a burst of attempts.
NextBurst ==
    \/ \E p \in Phones, d \in BotDeliveries : HandlePhoneNumber(1, 1, p, d)
    \/ \E r \in BotLoginResponses, d \in TryDeliveries : BotAcquireTokens(1, r, d)
    \/ \E r \in BotCodeResponses, d \in TryDeliveries : BotRequestCode(1, r, d)
    \/ StatusCommand
    \/ TickTo(BurstInstants)

SpecBurst == Init /\ [][NextBurst]_vars

\* The requests of one chat, answered by Telegram, while time passes
NextRelease ==
    \/ \E p \in Phones : HandlePhoneNumber(1, 1, p, "sent")
    \/ \E r \in BotLoginResponses : BotAcquireTokens(1, r, <<"sent">>)
    \/ \E r \in BotCodeResponses : BotRequestCode(1, r, <<"sent">>)
    \/ TickTo(BurstInstants)

\* telegram_bot.py:96, 121: the clock is time.time(), which goes on whatever the
\* bot does
SpecRelease == Init /\ [][NextRelease]_vars /\ WF_vars(TickTo(BurstInstants))

-----------------------------------------------------------------------------
(* The bot of one chat together with the direct endpoint of the agent's    *)
(* server, which takes the same chat ids.                                  *)

DirectResponses == {Http(200, CodeBodyResult), Http(401, NotJSON), NetworkFailure}

NextDirect ==
    \/ \E p \in Phones, d \in BotDeliveries : HandlePhoneNumber(1, 1, p, d)
    \/ \E r \in BotLoginResponses, d \in TryDeliveries : BotAcquireTokens(1, r, d)
    \/ \E r \in BotCodeResponses, d \in TryDeliveries : BotRequestCode(1, r, d)
    \/ Tick
    \/ \E c \in ChatIds, r \in DirectResponses :
           ProcessVerificationRequest(c, ValidPhone, JNull, JNull, r, "sent")
    \/ Respond

SpecDirect == Init /\ [][NextDirect]_vars

-----------------------------------------------------------------------------
(* The session codec *)

AccessTokens == {JStr(S_access), JStr(<<"B">>)}

NextCodec ==
    \/ \E p \in {ValidPhone, NoPlusPhone}, a \in AccessTokens, d \in {0, 1} :
           GenerateLink(p, a, JStr(S_refresh), d)
    \/ ValidateIssued
    \/ issued # NoToken /\ \E t \in Tampered(issued.jwt_token) : ValidateTampered(t)
    \/ \E t \in Forged(jwt_secret, now) : ValidateForged(t)
    \/ Restart
    \/ TickCodec

SpecCodec == Init /\ [][NextCodec]_vars

-----------------------------------------------------------------------------
(* The agent's server *)

Credentials == {JNull, JStr(S_access)}

NextAgent ==
    \/ /\ arun = NoRun
       /\ \E c \in ChatIds, p \in Phones, a \in Credentials,
             b \in {JNull, JStr(S_refresh)}, r \in CodeResponses, d \in Deliveries :
              ProcessVerificationRequest(c, p, a, b, r, d)
    \/ /\ arun = NoRun
       /\ \E c \in ChatIds, p \in Phones, l \in LoginResponses, r \in CodeResponses,
             d \in Deliveries :
              ProcessVerificationAutomatically(p, c, l, r, d)
    \/ /\ arun = NoRun
       /\ \E c \in ChatIds, r \in CodeResponses, d \in Deliveries :
              \/ issued # NoToken
                   /\ ProcessVerificationFromToken(issued.jwt_token, c, r, d)
              \/ \E t \in Forged(jwt_secret, now) :
                     ProcessVerificationFromToken(t, c, r, d)
              \/ issued # NoToken
                   /\ \E t \in Tampered(issued.jwt_token) :
                          ProcessVerificationFromToken(t, c, r, d)
    \/ Respond
    \/ GenerateLink(ValidPhone, JStr(S_access), JStr(S_refresh), 0)
    \/ TickCodec

SpecAgent == Init /\ [][NextAgent]_vars

-----------------------------------------------------------------------------
(* The code extractor on its own: _find_code_in_payload applied to JSON    *)
(* documents an upstream can send.                                         *)

upper_char(c) ==
    IF \E i \in DOMAIN LowerLetters : LowerLetters[i] = c
    THEN UpperLetters[CHOOSE i \in DOMAIN LowerLetters : LowerLetters[i] = c]
    ELSE c

upper(s) == [i \in DOMAIN s |-> upper_char(s[i])]

\* the four key names of a code
CodeKeyNames == {K_code, K_verificationCode, K_otp, K_otpCode}

\* keys of a response: the four names as written, in lower case, in upper
\* case, 'Code', and keys that name no code
PayloadKeys ==
    CodeKeyNames \cup { lower(k) : k \in CodeKeyNames }
        \cup { upper(k) : k \in CodeKeyNames } \cup {K_Code, K_status, K_message}

\* values of a key: strings, integers, and the other JSON values
PayloadValues ==
    { JStr(S_4821), JStr(<< >>), JInt(1234), JInt(0), JBool(TRUE), JBool(FALSE),
      JFloat(1), JNull, JObj(<< >>), JArr(<< >>) }

\* payload under n objects, {"result": {"data": {"result": ... }}}
RECURSIVE Nested(_, _)
Nested(payload, n) ==
    IF n = 0 THEN payload
    ELSE JObj(<< <<IF n % 2 = 1 THEN K_result ELSE K_data,
                   Nested(payload, n - 1)>> >>)

\* an object with one key, alone, after a key that names no code, or in a list
PayloadNodes ==
    LET single == { JObj(<< <<k, v>> >>) : k \in PayloadKeys, v \in PayloadValues }
    IN  single
        \cup { JObj(<< <<K_status, JInt(200)>> >> \o node.v) : node \in single }
        \cup { JArr(<< JInt(7), node >>) : node \in single }

K_a == <<"a">>
S_1 == <<"1">>
S_2 == <<"2">>

\* objects that carry a code under a key of their own and another one deeper
CodeBesideNested ==
    JObj(<< <<K_a, JObj(<< <<K_code, JStr(S_1)>> >>)>>, <<K_code, JStr(S_2)>> >>)
CodeBeforeNested ==
    JObj(<< <<K_code, JStr(S_2)>>, <<K_a, JObj(<< <<K_code, JStr(S_1)>> >>)>> >>)
CodeBesideList ==
    JObj(<< <<K_a, JArr(<< JObj(<< <<K_otp, JStr(S_1)>> >>) >>)>>,
            <<K_otp, JInt(2)>> >>)
TwoNested ==
    JObj(<< <<K_a, JObj(<< <<K_code, JStr(S_1)>> >>)>>,
            <<K_data, JObj(<< <<K_code, JStr(S_2)>> >>)>> >>)

PrecedencePayloads == {CodeBesideNested, CodeBeforeNested, CodeBesideList, TwoNested}

\* objects that carry an empty string under one key that names a code and a
\* code under another: the empty one first, last, or one object deeper
EmptyCodePayloads ==
    { JObj(<< <<K_code, JStr(<< >>)>>, <<K_otp, JStr(S_4821)>> >>),
      JObj(<< <<K_otp, JStr(S_4821)>>, <<K_code, JStr(<< >>)>> >>),
      JObj(<< <<K_a, JObj(<< <<K_code, JStr(<< >>)>> >>)>>, <<K_otp, JStr(S_4821)>> >>),
      JObj(<< <<K_code, JStr(<< >>)>>, <<K_data, JObj(<< <<K_OTP, JInt(1234)>> >>)>> >>) }

Payloads ==
    { Nested(node, n) : node \in PayloadNodes, n \in 0..MaxDepth }
        \cup (CodeBodies \ {NotJSON})
        \cup { Nested(node, n) : node \in PrecedencePayloads, n \in 0..1 }
        \cup { Nested(node, n) : node \in EmptyCodePayloads, n \in 0..1 }

\* _find_code_in_payload(payload) is called
FindCodeInPayload(payload) ==
    /\ arun = NoRun
    /\ arun' = [op |-> "_find_code_in_payload", payload |-> payload,
                found |-> find_code_in_payload(payload)]
    /\ Quiet /\ vres' = NoRun
    /\ UNCHANGED <<now, attempts, bruns, passes, jwt_secret, issued>>

\* the caller takes what the last call returned
NextExtract ==
    \/ arun = NoRun /\ \E payload \in Payloads : FindCodeInPayload(payload)
    \/ Respond

SpecExtract == Init /\ [][NextExtract]_vars

-----------------------------------------------------------------------------
(* The orchestration runs of both processes: the bot's handle_phone_number  *)
(* for one chat and the three process_verification_* operations behind the *)
(* agent's server.                                                         *)

RunResponses ==
    {Http(200, CodeBodyResult), Http(200, CodeBodyNone), Http(401, NotJSON),
     Http(500, NotJSON), NetworkFailure}

NextRuns ==
    \/ \E p \in Phones, d \in BotDeliveries : HandlePhoneNumber(1, 1, p, d)
    \/ \E r \in BotLoginResponses, d \in TryDeliveries : BotAcquireTokens(1, r, d)
    \/ \E r \in BotCodeResponses, d \in TryDeliveries : BotRequestCode(1, r, d)
    \/ Tick
    \/ /\ arun = NoRun
       /\ \E a \in Credentials, r \in RunResponses, d \in Deliveries :
              ProcessVerificationRequest(1, ValidPhone, a, a, r, d)
    \/ /\ arun = NoRun
       /\ \E l \in LoginResponses, r \in RunResponses, d \in Deliveries :
              ProcessVerificationAutomatically(ValidPhone, 1, l, r, d)
    \/ /\ arun = NoRun
       /\ \E t \in Forged(jwt_secret, now), r \in RunResponses, d \in Deliveries :
              ProcessVerificationFromToken(t, 1, r, d)
    \/ Respond

SpecRuns == Init /\ [][NextRuns]_vars

-----------------------------------------------------------------------------
(* The same runs with every kind of answer of the collaborators: any       *)
(* status, a body that is not JSON or not an object, a timeout or a broken *)
(* connection, a message Telegram does not take; the callers of the server *)
(* send phone numbers of every form.                                       *)

LoginBodyResultStr ==
    JObj(<< <<K_status, JInt(200)>>, <<K_result, JStr(S_access)>> >>)

FaultLoginResponses ==
    LoginResponses \cup
        { Http(200, NotJSON), Http(200, NotJSONRequestException), Http(200, JArr(<< >>)),
          Http(200, JNull), Http(200, LoginBodyResultStr), Http(401, LoginBodyRefused) }

CodeBodyResultStr ==
    JObj(<< <<K_status, JInt(200)>>, <<K_result, JStr(S_7788)>> >>)

FaultCodeResponses ==
    CodeResponses \cup
        { Http(200, NotJSONRequestException), Http(200, JStr(S_7788)),
          Http(200, CodeBodyResultStr) }

NextFaults ==
    \/ \E p \in Phones, d \in BotDeliveries : HandlePhoneNumber(1, 1, p, d)
    \/ \E r \in FaultLoginResponses, d \in TryDeliveries : BotAcquireTokens(1, r, d)
    \/ \E r \in FaultCodeResponses, d \in TryDeliveries : BotRequestCode(1, r, d)
    \/ /\ arun = NoRun
       /\ \E p \in Phones, a \in Credentials, r \in FaultCodeResponses, d \in Deliveries :
              ProcessVerificationRequest(1, p, a, a, r, d)
    \/ /\ arun = NoRun
       /\ \E p \in Phones, l \in FaultLoginResponses, r \in FaultCodeResponses,
             d \in Deliveries :
              ProcessVerificationAutomatically(p, 1, l, r, d)
    \/ /\ arun = NoRun
       /\ \E t \in Forged(jwt_secret, now), r \in FaultCodeResponses, d \in Deliveries :
              ProcessVerificationFromToken(t, 1, r, d)
    \/ Respond

SpecFaults == Init /\ [][NextFaults]_vars

\* The same runs when every call made returns: requests.post and requests.get
\* carry timeout=30 (telegram_bot.py:61, 140), so the login and the code request
\* of a run in flight return or raise, and the run takes its next step.
SpecTermination ==
    /\ Init
    /\ [][NextFaults]_vars
    /\ WF_vars(\E r \in FaultLoginResponses, d \in TryDeliveries :
                   BotAcquireTokens(1, r, d))
    /\ WF_vars(\E r \in FaultCodeResponses, d \in TryDeliveries : BotRequestCode(1, r, d))

-----------------------------------------------------------------------------
(* Properties *)

\* how many entries of a list of timestamps are younger than the window at t
CountWithin(timestamps, t) ==
    Cardinality({ i \in DOMAIN timestamps : t - timestamps[i] < block_duration })

\* the events of one kind in a trace of calls
EventsOf(trace, ev) == { i \in DOMAIN trace : trace[i].ev = ev }

\* the token is one jwt.encode makes with the secret of the running agent
SignedByAgent(jwt_token) ==
    /\ jwt_token.segments = 3
    /\ jwt_token.hdr = Hs256Header
    /\ jwt_token.sig = Sign(jwt_secret, jwt_token.hdr, jwt_token.claims)

\* the last step validated the token of the last link under the secret it was
\* signed with
ValidatedIssued ==
    /\ vres # NoRun
    /\ vres.origin = "issued"
    /\ issued.key = jwt_secret

\* C1: round trip.  At any time before the expiry of a token made by
\* generate_verification_link, validate_verification_token of it under the same
\* secret returns success with the phone number, access token and refresh token
\* that were encoded.
C1_round_trip ==
    (ValidatedIssued /\ now < issued.expires_at.v) =>
        /\ vres.result.success
        /\ vres.result.phone_number = issued.jwt_token.claims.phone_number
        /\ vres.result.access_token = issued.jwt_token.claims.access_token
        /\ vres.result.refresh_token = issued.jwt_token.claims.refresh_token

\* C2: blocked short circuit.  A direct run for a chat id that has 5 attempts
\* recorded within the last 600 seconds ends Blocked and makes neither the login
\* call nor the code request, on the bot (handle_phone_number) and on the server
\* (process_verification_request).
C2_blocked_short_circuit ==
    /\ (ddos # NoCheck /\ CountWithin(ddos.before, now) >= max_attempts) =>
           /\ bdone.outcome = "Blocked"
           /\ \A i \in DOMAIN bdone.trace : bdone.trace[i] \notin {"login", "code"}
    /\ (arun # NoRun /\ arun.op = "process_verification_request"
           /\ CountWithin(attempts[arun.chat_id], now) >= max_attempts) =>
           /\ arun.result.error = "BLOCKED"
           /\ EventsOf(arun.trace, "login") = {}
           /\ EventsOf(arun.trace, "code") = {}

\* C3: rate limit threshold.  A check_ddos_protection that finds five attempts of
\* the chat recorded within the window returns blocked; one that comes 600
\* seconds or more after the last recorded attempt returns not blocked.
C3_rate_limit_threshold ==
    ddos # NoCheck =>
        /\ CountWithin(ddos.before, now) >= max_attempts => ddos.blocked
        /\ (\A i \in DOMAIN ddos.before : now - ddos.before[i] >= block_duration)
               => ~ddos.blocked

\* five attempts were recorded, 600 seconds have passed since the last of them,
\* and the check lets the chat through
C3_released ==
    /\ ddos # NoCheck
    /\ Len(ddos.before) = max_attempts
    /\ \A i \in DOMAIN ddos.before : now - ddos.before[i] = block_duration
    /\ ~ddos.blocked

\* C4: same-identity linearization.  Whatever the interleaving of the runs of
\* handle_phone_number for one chat, every timestamp of a run that passed the
\* check and is still within the window is in the list exactly once and in the
\* order of the passes, no run records more than once, and no more than 5 runs
\* pass within one window of 600 seconds.
C4_linearization ==
    /\ \A c \in ChatIds :
          /\ recent_attempts(attempts[c], now) = passes[c]
          /\ Len(passes[c]) <= max_attempts
    /\ \A s \in Slots :
          Cardinality({ i \in DOMAIN bruns[s].trace : bruns[s].trace[i] = "record" }) <= 1
    /\ Cardinality({ i \in DOMAIN bdone.trace : bdone.trace[i] = "record" }) <= 1

\* two runs for the chat are in flight, five have passed within the window
C4_interleaved ==
    /\ \A s \in Slots : bruns[s].pc # "idle" /\ bruns[s].chat_id = 1
    /\ Len(passes[1]) = max_attempts
    /\ Len(attempts[1]) = max_attempts

\* C5: tamper evidence.  validate_verification_token of any modification of a
\* token made by generate_verification_link returns the failure INVALID_TOKEN.
C5_tamper_evidence ==
    (vres # NoRun /\ vres.origin = "tampered") =>
        /\ ~vres.result.success
        /\ vres.result.error = "INVALID_TOKEN"

\* C6: expiry.  validate_verification_token of a token whose expiry (issue time
\* plus 24 hours) is earlier than the current time returns the failure
\* TOKEN_EXPIRED.
C6_expiry ==
    (ValidatedIssued /\ issued.expires_at.v < now) =>
        /\ ~vres.result.success
        /\ vres.result.error = "TOKEN_EXPIRED"

\* a token was validated after its expiry and found expired
C6_expired ==
    /\ ValidatedIssued
    /\ issued.expires_at.v < now
    /\ vres.result.error = "TOKEN_EXPIRED"

\* C7: decode invariant.  A validation that succeeds is of a token of type
\* 'verification' whose expiry is not in the past; a correctly signed, unexpired
\* token of any other type gets INVALID_TOKEN_TYPE and none of its fields.
C7_decode_invariant ==
    vres # NoRun =>
        /\ vres.result.success =>
               /\ vres.token.claims.type = JStr(S_verification)
               /\ vres.token.claims.exp.t = "int"
               /\ vres.token.claims.exp.v >= now
        /\ (/\ SignedByAgent(vres.token)
            /\ vres.token.claims.exp.t = "int"
            /\ vres.token.claims.exp.v > now
            /\ vres.token.claims.type # JStr(S_verification)) =>
               /\ vres.result = TokenFailure("INVALID_TOKEN_TYPE")
               /\ vres.result.phone_number = Absent
               /\ vres.result.access_token = Absent
               /\ vres.result.refresh_token = Absent

\* a correctly signed, unexpired token of type 'session' was rejected for its type
C7_wrong_type_rejected ==
    /\ vres # NoRun
    /\ SignedByAgent(vres.token)
    /\ vres.token.claims.exp.t = "int"
    /\ vres.token.claims.exp.v > now
    /\ vres.token.claims.type = JStr(S_session)
    /\ vres.result.error = "INVALID_TOKEN_TYPE"

\* the last step was a run of the agent that made the code request
CodeRequested == arun # NoRun /\ arun.api_result # Absent

\* C8: outcome mapping of request_verification_code.  Status 200 with a code the
\* extractor finds gives success with that code and the phone number; status 200
\* without one, a body that is not JSON included, gives CODE_NOT_FOUND; status
\* 401 gives AUTH_ERROR; any other status gives API_ERROR; a failure of the
\* network gives NETWORK_ERROR.
C8_outcome_mapping ==
    CodeRequested =>
        LET response == arun.response
            api_result == arun.api_result
            requested == arun.trace[CHOOSE i \in EventsOf(arun.trace, "code") : TRUE]
            failed(error) == /\ ~api_result.success
                             /\ api_result.error = error
                             /\ api_result.code = Absent
        IN  /\ EventsOf(arun.trace, "code") # {}
            /\ api_result.phone_number = requested.phone_number
            /\ IF response.net THEN failed("NETWORK_ERROR")
               ELSE IF response.status = 200 /\ response.body.t = "notjson"
               THEN failed("CODE_NOT_FOUND")
               ELSE IF response.status = 200
                       /\ truthy(find_code_in_payload(response.body))
               THEN /\ api_result.success
                    /\ api_result.error = None
                    /\ api_result.code = find_code_in_payload(response.body)
               ELSE IF response.status = 200 THEN failed("CODE_NOT_FOUND")
               ELSE IF response.status = 401 THEN failed("AUTH_ERROR")
               ELSE failed("API_ERROR")

\* the upstream answered 401 and the result is AUTH_ERROR
C8_auth_error ==
    /\ CodeRequested
    /\ ~arun.response.net
    /\ arun.response.status = 401
    /\ arun.api_result.error = "AUTH_ERROR"

\* C9: credential acquisition when absent.  A process_verification_request
\* without access and refresh tokens first makes the login call and then the
\* code request with the credentials it got; it makes no code request without
\* credentials.
C9_credentials_acquired ==
    (/\ arun # NoRun
     /\ arun.op = "process_verification_request"
     /\ ~truthy(arun.access_token)
     /\ ~truthy(arun.refresh_token)) =>
        /\ EventsOf(arun.trace, "login") # {}
        /\ \A i \in EventsOf(arun.trace, "code") :
              /\ \E j \in EventsOf(arun.trace, "login") : j < i
              /\ arun.trace[i].headers.accessToken # Absent
              /\ arun.trace[i].headers.refreshToken # Absent

\* C10: exactly one delivery per run.  Every run of process_verification_request,
\* process_verification_automatically and process_verification_from_token calls
\* send_telegram_message exactly once, for the chat id it was given.
C10_one_delivery ==
    arun # NoRun =>
        /\ Cardinality(EventsOf(arun.trace, "send")) = 1
        /\ \A i \in EventsOf(arun.trace, "send") : arun.trace[i].chat_id = arun.chat_id

\* a run that failed upstream, and whose message Telegram refused, sent once
C10_failed_run_sent_once ==
    /\ arun # NoRun
    /\ arun.op = "process_verification_request"
    /\ ~arun.result.success
    /\ Cardinality(EventsOf(arun.trace, "send")) = 1
    /\ \E i \in EventsOf(arun.trace, "send") : arun.trace[i].delivery = "refused"

\* the message of the one send of an agent run
SentWhat == arun.trace[CHOOSE i \in EventsOf(arun.trace, "send") : TRUE].what

\* the agent run failed at the login or at the code request
UpstreamFailed ==
    /\ arun # NoRun
    /\ ~arun.result.success
    /\ EventsOf(arun.trace, "login") \cup EventsOf(arun.trace, "code") # {}

\* C11: AUTH_ERROR messaging.  In every orchestration path a run that ends in
\* AUTH_ERROR sends the message that tells the user to authenticate again, and a
\* run that ends in another failure of the upstream calls sends the message that
\* tells the user to try later or to contact support.
C11_auth_error_messaging ==
    /\ UpstreamFailed =>
           IF arun.result.error = "AUTH_ERROR"
           THEN advice(SentWhat) = "reauthenticate"
           ELSE advice(SentWhat) = "retry_later"
    /\ (bdone.pc = "done" /\ bdone.outcome = "Failed") =>
           IF bdone.error = "AUTH_ERROR"
           THEN advice(bdone.message) = "reauthenticate"
           ELSE advice(bdone.message) = "retry_later"

\* the run of the agent got a code from the upstream
CodeObtained == CodeRequested /\ arun.api_result.success

\* C12: best-effort delivery.  A run that obtained a code returns success with
\* that code, and returns the same whether send_telegram_message succeeded, was
\* refused or met an exception.
C12_best_effort_delivery ==
    CodeObtained =>
        /\ arun.result.success
        /\ arun.result.error = None
        /\ arun.result.code = arun.api_result.code
        /\ arun.op = "process_verification_request" =>
               \A d \in Deliveries :
                   arun.result =
                       process_verification_request(arun.chat_id, arun.phone_number.v,
                           arun.access_token, arun.refresh_token, arun.response,
                           d).result
        /\ arun.op = "process_verification_automatically" =>
               \A d \in Deliveries :
                   arun.result =
                       process_verification_automatically(arun.phone_number.v,
                           arun.chat_id, arun.login_response, arun.response, d).result

\* a run obtained a code, the sending met an exception, the run returned success
C12_delivered_despite_exception ==
    /\ CodeObtained
    /\ arun.op = "process_verification_request"
    /\ \E i \in EventsOf(arun.trace, "send") : arun.trace[i].delivery = "exception"
    /\ arun.result.success

\* how often a bot run made a call
BotCalls(run, call) == Cardinality({ i \in DOMAIN run.trace : run.trace[i] = call })

\* C13: no retries.  One run of a process_verification_* operation or of
\* handle_phone_number calls the login endpoint at most once and the code
\* request endpoint at most once, whatever the responses.
C13_no_retries ==
    /\ arun # NoRun =>
           /\ Cardinality(EventsOf(arun.trace, "login")) <= 1
           /\ Cardinality(EventsOf(arun.trace, "code")) <= 1
    /\ \A s \in Slots : BotCalls(bruns[s], "login") <= 1 /\ BotCalls(bruns[s], "code") <= 1
    /\ BotCalls(bdone, "login") <= 1 /\ BotCalls(bdone, "code") <= 1

\* an automatic run whose login failed on the network made that one call and
\* no other
C13_failed_login_once ==
    /\ arun # NoRun
    /\ arun.op = "process_verification_automatically"
    /\ arun.result.error = "NETWORK_ERROR"
    /\ Cardinality(EventsOf(arun.trace, "login")) = 1
    /\ EventsOf(arun.trace, "code") = {}

\* the last step was a run of process_verification_from_token
FromTokenRun == arun # NoRun /\ arun.op = "process_verification_from_token"

\* what validate_verification_token makes of the token of the run
TokenValidation == validate_verification_token(arun.jwt_token, jwt_secret, now)

\* C14: session decode failure.  process_verification_from_token of a token
\* that fails validation makes no login call and no code request, sends the
\* message that asks for a new link, and returns the failure of the validation
\* with its error kind.
C14_decode_failure ==
    (FromTokenRun /\ ~TokenValidation.success) =>
        /\ EventsOf(arun.trace, "login") = {}
        /\ EventsOf(arun.trace, "code") = {}
        /\ Cardinality(EventsOf(arun.trace, "send")) = 1
        /\ SentWhat = "token_error"
        /\ advice(SentWhat) = "new_link"
        /\ ~arun.result.success
        /\ arun.result.error = TokenValidation.error
        /\ arun.result.code = Absent

\* the token of a run had expired: no upstream call, the new-link message, the
\* failure TOKEN_EXPIRED
C14_expired_token_run ==
    /\ FromTokenRun
    /\ issued # NoToken
    /\ arun.jwt_token = issued.jwt_token
    /\ arun.result.error = "TOKEN_EXPIRED"
    /\ EventsOf(arun.trace, "code") = {}
    /\ SentWhat = "token_error"

\* C15: session decode success.  process_verification_from_token of a validly
\* signed, unexpired verification token makes the code request for the phone
\* number of the token with the access and refresh tokens of the token, makes
\* no login call, and ends in the outcome of the code request.
C15_decode_success ==
    (/\ FromTokenRun
     /\ SignedByAgent(arun.jwt_token)
     /\ arun.jwt_token.claims.type = JStr(S_verification)
     /\ arun.jwt_token.claims.exp.t = "int"
     /\ arun.jwt_token.claims.exp.v > now) =>
        /\ EventsOf(arun.trace, "login") = {}
        /\ Cardinality(EventsOf(arun.trace, "code")) = 1
        /\ \A i \in EventsOf(arun.trace, "code") :
              /\ arun.trace[i].phone_number = arun.jwt_token.claims.phone_number
              /\ arun.trace[i].headers.accessToken = arun.jwt_token.claims.access_token
              /\ arun.trace[i].headers.refreshToken = arun.jwt_token.claims.refresh_token
        /\ arun.api_result # Absent
        /\ arun.result.success = arun.api_result.success
        /\ arun.result.error = arun.api_result.error

\* the last step was a call of _find_code_in_payload
ExtractRun == arun # NoRun /\ arun.op = "_find_code_in_payload"

\* the key is one of the four names in some letter case
NamesCode(key) == \E name \in CodeKeyNames : lower(key) = lower(name)

\* a JSON string or a JSON integer
StrOrInteger(value) == value.t \in {"str", "int"}

\* C16: extractor key matching.  At an object node whose key is one of code,
\* verificationCode, otp, otpCode in any letter case and has a string or an
\* integer as its value, _find_code_in_payload returns that value as a string.
C16_key_matching ==
    (/\ ExtractRun
     /\ arun.payload.t = "obj"
     /\ Len(arun.payload.v) >= 1
     /\ NamesCode(arun.payload.v[1][1])
     /\ StrOrInteger(arun.payload.v[1][2])) =>
        arun.found = JStr(py_str(arun.payload.v[1][2]))

\* the tree has, at some depth, a key that names a code with a string or an
\* integer as its value
RECURSIVE HasCode(_)
HasCode(tree) ==
    CASE tree.t = "obj" ->
             \E i \in DOMAIN tree.v :
                 \/ NamesCode(tree.v[i][1]) /\ StrOrInteger(tree.v[i][2])
                 \/ HasCode(tree.v[i][2])
      [] tree.t = "arr" -> \E i \in DOMAIN tree.v : HasCode(tree.v[i])
      [] OTHER -> FALSE

\* the innermost object of a chain of objects with one key each
RECURSIVE Innermost(_)
Innermost(tree) ==
    IF tree.t = "obj" /\ Len(tree.v) = 1 /\ tree.v[1][2].t = "obj"
           /\ Len(tree.v[1][2].v) = 1 /\ ~NamesCode(tree.v[1][1])
    THEN Innermost(tree.v[1][2])
    ELSE tree

\* C17: extractor search depth and absence.  _find_code_in_payload returns the
\* value of a matching key at any depth (result.data.otp), returns None when no
\* key that names a code has a string or an integer as its value anywhere in
\* the tree, and returns the string of an integer under a key such as 'Code'.
C17_depth_and_absence ==
    ExtractRun =>
        /\ ~HasCode(arun.payload) => arun.found = JNull
        /\ LET node == Innermost(arun.payload)
           IN  (/\ node.t = "obj" /\ Len(node.v) = 1
                /\ NamesCode(node.v[1][1]) /\ StrOrInteger(node.v[1][2])) =>
                   arun.found = JStr(py_str(node.v[1][2]))
        /\ arun.payload = CodeBodyNested => arun.found = JStr(S_4821)
        /\ arun.payload = CodeBodyNone => arun.found = JNull
        /\ arun.payload = CodeBodyInt => arun.found = JStr(<<"1", "2", "3", "4">>)


\* the attempts of the chat are a burst of one a second that started at second t
BurstAt(t) == ddos.before = <<t, t + 1, t + 2, t + 3, t + 4>>

\* C18: window-edge release.  With five attempts recorded for a chat at the
\* seconds t, t+1, t+2, t+3, t+4, a check_ddos_protection at a time in
\* [t+4, t+600) returns blocked, and one at a time in [t+600, t+601) returns not
\* blocked: the attempt of second t has aged out and the other four remain.
C18_window_edge_release ==
    ddos # NoCheck =>
        \A t \in 0..MaxBurstStart :
            BurstAt(t) =>
                /\ (now >= t + 4 /\ now < t + block_duration) => ddos.blocked
                /\ (now >= t + block_duration /\ now < t + block_duration + 1) =>
                       /\ ~ddos.blocked
                       /\ ddos.retained = <<t + 1, t + 2, t + 3, t + 4>>

\* the check made 600 seconds after the first attempt of a burst lets the chat
\* through and keeps the four later attempts
C18_released_at_edge ==
    /\ ddos # NoCheck
    /\ \E t \in 0..MaxBurstStart :
          /\ BurstAt(t)
          /\ now = t + block_duration
          /\ ~ddos.blocked
          /\ ddos.retained = <<t + 1, t + 2, t + 3, t + 4>>

\* the attempts of a list that are younger than the window at second t
Retained(timestamps, t) ==
    { timestamps[i] : i \in { j \in DOMAIN timestamps : t - timestamps[j] < block_duration } }

\* C19: retry-after computation.  Whenever check_ddos_protection returns blocked,
\* time_until_unblock is the oldest timestamp retained after compaction plus
\* block_duration minus the current time, and the minutes and seconds reported
\* are that value split by 60.
C19_retry_after ==
    (ddos # NoCheck /\ ddos.blocked) =>
        /\ { ddos.retained[i] : i \in DOMAIN ddos.retained } = Retained(ddos.before, now)
        /\ \E oldest \in Retained(ddos.before, now) :
              /\ \A a \in Retained(ddos.before, now) : oldest <= a
              /\ ddos.time_until_unblock = oldest + block_duration - now
        /\ ddos.minutes * 60 + ddos.seconds = ddos.time_until_unblock
        /\ ddos.seconds \in 0..59
        /\ ddos.time_until_unblock \in 1..block_duration

\* a blocked check some seconds into the window, after attempts made at
\* different seconds: the wait is less than the whole window and is reported
\* with both minutes and seconds
C19_wait_shrinks ==
    /\ ddos # NoCheck
    /\ ddos.blocked
    /\ \E i, j \in DOMAIN ddos.retained : ddos.retained[i] # ddos.retained[j]
    /\ ddos.time_until_unblock < block_duration
    /\ ddos.minutes > 0
    /\ ddos.seconds > 0

\* the positions of a call in the trace of a run
PositionsOf(trace, call) == { i \in DOMAIN trace : trace[i] = call }

\* the record of a run comes once, after the check and before the upstream calls
RecordedInOrder(trace) ==
    /\ Cardinality(PositionsOf(trace, "record")) = 1
    /\ \A i \in PositionsOf(trace, "record") :
          /\ \E j \in PositionsOf(trace, "check") : j < i
          /\ \A j \in PositionsOf(trace, "login") \cup PositionsOf(trace, "code") : i < j

\* a run of handle_phone_number that was accepted
Accepted(run) ==
    \/ run.pc \in {"tokens", "code"}
    \/ run.pc = "done" /\ run.outcome \in {"Delivered", "Failed"}
    \/ run.pc = "done" /\ run.outcome = "Escaped" /\ Len(run.trace) > 2

\* C20: attempt recording order.  Every run of handle_phone_number that is
\* accepted calls record_attempt exactly once, after check_ddos_protection and
\* before the login and the code request: the step that accepts the run appends
\* the current time to the compacted list of the chat, a run that is refused
\* appends nothing, and no later step, a failing login or code request
\* included, takes an attempt that is still within the window off the list.
C20_recording_order ==
    /\ [](/\ \A s \in Slots : Accepted(bruns[s]) => RecordedInOrder(bruns[s].trace)
          /\ Accepted(bdone) => RecordedInOrder(bdone.trace)
          /\ (bdone.pc = "done" /\ ~Accepted(bdone)) =>
                 PositionsOf(bdone.trace, "record") = {})
    /\ [][/\ ddos' # NoCheck =>
                 LET phone_number == IF bdone'.pc = "done"
                                     THEN bdone'.phone_number
                                     ELSE bruns'[1].phone_number
                     accepted == ~ddos'.blocked /\ ~bad_phone_format(phone_number)
                 IN  /\ accepted <=> (bruns'[1].pc = "tokens" \/ Accepted(bdone'))
                     /\ attempts'[ddos'.chat_id] =
                            IF accepted
                            THEN Append(ddos'.retained, now)
                            ELSE ddos'.retained
          /\ bruns[1].pc \in {"tokens", "code"} /\ bruns'[1] # bruns[1] =>
                 attempts' = attempts
          /\ \A c \in ChatIds :
                 CountWithin(attempts'[c], now') >= CountWithin(attempts[c], now')]_vars

\* an accepted run whose login failed has returned, and the attempt it recorded
\* at the current second is on the list of its chat
C20_failed_run_counted ==
    /\ bdone.pc = "done"
    /\ bdone.outcome = "Failed"
    /\ bdone.trace = <<"check", "record", "reply", "login", "reply">>
    /\ \E i \in DOMAIN attempts[bdone.chat_id] : attempts[bdone.chat_id][i] = now


\* the outcomes a run of handle_phone_number ends with when it returns
BotOutcomes == {"Blocked", "BadFormat", "Delivered", "Failed"}

\* the operations of the agent that make a verification run
Orchestrations ==
    {"process_verification_request", "process_verification_automatically",
     "process_verification_from_token"}

\* C21: no unhandled fault.  Whatever the upstream API and Telegram answer (any
\* status, a body that is not JSON or not an object, a network failure, a
\* message that is not delivered), a run of process_verification_request,
\* process_verification_automatically or process_verification_from_token returns
\* a result with a success flag and, on failure, an error tag, and a run of
\* handle_phone_number ends with one of its outcomes: no exception leaves the
\* operation.
C21_no_unhandled_fault ==
    /\ (arun # NoRun /\ arun.op \in Orchestrations) =>
           /\ arun.result.success \in BOOLEAN
           /\ ~arun.result.success => arun.result.error # None
    /\ bdone.pc = "done" => bdone.outcome \in BotOutcomes


\* the error tags of the taxonomy, the three kinds of token failure under the
\* names the code gives them
ErrorTaxonomy ==
    {"INVALID_TOKEN", "TOKEN_EXPIRED", "INVALID_TOKEN_TYPE", "LOGIN_API_ERROR",
     "INVALID_RESPONSE", "TOKENS_NOT_FOUND", "NETWORK_ERROR", "AUTH_ERROR", "API_ERROR",
     "CODE_NOT_FOUND", "BLOCKED", "UNKNOWN_ERROR"}

\* C22: closed error taxonomy.  Every failure returned by
\* generate_verification_link, validate_verification_token,
\* process_verification_from_token, process_verification_request and
\* process_verification_automatically carries an error tag of the taxonomy.
C22_closed_taxonomy ==
    /\ (issued # NoToken /\ ~issued.success) => issued.error \in ErrorTaxonomy
    /\ (vres # NoRun /\ ~vres.result.success) => vres.result.error \in ErrorTaxonomy
    /\ (arun # NoRun /\ arun.op \in Orchestrations /\ ~arun.result.success) =>
           arun.result.error \in ErrorTaxonomy


\* the last step validated the token of the last link under a secret other than
\* the one it was signed with
ValidatedUnderOtherSecret ==
    /\ vres # NoRun
    /\ vres.origin = "issued"
    /\ issued # NoToken
    /\ vres.token = issued.jwt_token
    /\ issued.key # jwt_secret

\* C23: secret binding.  validate_verification_token of a token that
\* generate_verification_link made under one signing secret, run by an agent
\* whose secret is a different one, returns the failure INVALID_TOKEN and never
\* accepts the token.
C23_secret_binding ==
    ValidatedUnderOtherSecret =>
        /\ ~vres.result.success
        /\ vres.result.error = "INVALID_TOKEN"

\* the agent was created again with another secret and rejected the token of a
\* link made before, which had not expired
C23_rejected_after_restart ==
    /\ ValidatedUnderOtherSecret
    /\ now < issued.expires_at.v
    /\ vres.result.error = "INVALID_TOKEN"


\* C24: fixed lifetime.  In every token generate_verification_link makes, the exp
\* claim is the iat claim plus 24 hours, also when the clock advances between
\* the read for exp and the read for iat, and the expires_at it returns is the
\* exp claim of the token.
C24_fixed_lifetime ==
    issued # NoToken =>
        /\ issued.jwt_token.claims.exp.v = issued.jwt_token.claims.iat.v + token_lifetime
        /\ issued.expires_at.v = issued.jwt_token.claims.exp.v


\* the code requests of a trace of the agent
CodeRequests(trace) == { trace[i] : i \in EventsOf(trace, "code") }

\* C25: phone-number format gate.  No run issues a code request for a phone
\* number that does not start with '+'; a run of handle_phone_number for such a
\* number, or for one shorter than 10 characters, records no attempt and makes
\* no login call.
C25_phone_format_gate ==
    /\ (arun # NoRun /\ arun.op \in Orchestrations) =>
           \A call \in CodeRequests(arun.trace) : startswith_plus(call.phone_number.v)
    /\ \A s \in Slots :
           bruns[s].pc # "idle" => ~bad_phone_format(bruns[s].phone_number)
    /\ (bdone.pc = "done" /\ bad_phone_format(bdone.phone_number)) =>
           /\ PositionsOf(bdone.trace, "record") = {}
           /\ PositionsOf(bdone.trace, "login") = {}
           /\ PositionsOf(bdone.trace, "code") = {}
           /\ ddos # NoCheck /\ attempts[bdone.chat_id] = ddos.retained


\* the body of a login answer that carries tokens: status 200 and a result
LoginBodyAccepted(response) ==
    /\ ~response.net
    /\ response.status = 200
    /\ response.body.t = "obj"
    /\ dict_get(response.body, K_status) = JInt(200)
    /\ dict_has(response.body, K_result)

\* the token a login answer returns under a key of its result
LoginToken(response, key) ==
    IF LoginBodyAccepted(response) /\ dict_get(response.body, K_result).t = "obj"
    THEN dict_get(dict_get(response.body, K_result), key)
    ELSE JNull

LoginSucceeded(response) ==
    /\ truthy(LoginToken(response, K_accessToken))
    /\ truthy(LoginToken(response, K_refreshToken))

\* the failure a login answer stands for; None for the answers that are none
\* of the four (a body that is not a JSON object)
LoginFailureKind(response) ==
    IF response.net THEN "NETWORK_ERROR"
    ELSE IF response.status # 200 THEN "LOGIN_API_ERROR"
    ELSE IF response.body.t # "obj" THEN None
    ELSE IF ~LoginBodyAccepted(response) THEN "INVALID_RESPONSE"
    ELSE IF dict_get(response.body, K_result).t # "obj" THEN None
    ELSE IF ~LoginSucceeded(response) THEN "TOKENS_NOT_FOUND"
    ELSE None

\* the stage order in a run of handle_phone_number that made its login call
BotStageOrder(run) ==
    PositionsOf(run.trace, "login") # {} =>
        /\ \A i \in PositionsOf(run.trace, "code") :
              /\ \E j \in PositionsOf(run.trace, "login") : j < i
              /\ LoginSucceeded(run.login_response)
              /\ run.headers.accessToken = LoginToken(run.login_response, K_accessToken)
              /\ run.headers.refreshToken = LoginToken(run.login_response, K_refreshToken)
        /\ LoginSucceeded(run.login_response) =>
              run.pc = "code" \/ PositionsOf(run.trace, "code") # {}
                  \/ PositionsOf(run.trace, "raise") # {}
        /\ ~LoginSucceeded(run.login_response) =>
              /\ run.pc = "done"
              /\ PositionsOf(run.trace, "code") = {}
              /\ run.outcome = "Failed" \/ PositionsOf(run.trace, "raise") # {}
              /\ (run.message = "tokens_error"
                      /\ LoginFailureKind(run.login_response) # None) =>
                     run.error = LoginFailureKind(run.login_response)

C27_bot_401_mapping ==
    (/\ bdone.pc = "done"
     /\ PositionsOf(bdone.trace, "code") # {}
     /\ PositionsOf(bdone.trace, "raise") = {}
     /\ ~bdone.response.net
     /\ bdone.response.status = 401) =>
        /\ bdone.outcome = "Failed"
        /\ bdone.error = "AUTH_ERROR"
        /\ bdone.message = bot_error_message("AUTH_ERROR")


\* the positions of an object at which a key names a code and has a string or
\* an integer as its value
OwnCodes(node) ==
    { i \in DOMAIN node.v : NamesCode(node.v[i][1]) /\ StrOrInteger(node.v[i][2]) }

\* the positions of an object whose value holds a code somewhere inside
ChildCodes(node) == { i \in DOMAIN node.v : HasCode(node.v[i][2]) }

\* the least member of a set of positions
First(positions) == CHOOSE i \in positions : \A j \in positions : i <= j

\* C28: extractor precedence.  At an object, a key of the object itself that
\* names a code and has a string or an integer as its value wins over every
\* match inside the other values, whatever the order of the keys; when the
\* object has no such key its values are searched in the order met and the
\* first code found is returned.
C28_extractor_precedence ==
    (ExtractRun /\ arun.payload.t = "obj") =>
        LET node == arun.payload
        IN  /\ OwnCodes(node) # {} =>
                   arun.found = JStr(py_str(node.v[First(OwnCodes(node))][2]))
            /\ (OwnCodes(node) = {} /\ ChildCodes(node) # {}) =>
                   arun.found = find_code_in_payload(node.v[First(ChildCodes(node))][2])


\* the entries of a list of timestamps younger than the window at t, in order
Within(timestamps, t) ==
    SelectSeq(timestamps, LAMBDA a : t - a < block_duration)

\* C29: compaction invariant.  Right after check_ddos_protection of a chat at
\* time now, every timestamp kept for the chat is less than block_duration old
\* (one exactly 600 seconds old is evicted) and nothing younger was dropped; the
\* list of a chat changes only in a check of that chat or in the sweep of the
\* status command, never because time passes.
C29_compaction ==
    /\ [](ddos # NoCheck =>
             /\ \A i \in DOMAIN ddos.retained : now - ddos.retained[i] < block_duration
             /\ ddos.retained = Within(ddos.before, now)
             /\ \A i \in DOMAIN attempts[ddos.chat_id] :
                   now - attempts[ddos.chat_id][i] < block_duration)
    /\ [][/\ now' # now => attempts' = attempts
          /\ \A c \in ChatIds :
                attempts'[c] # attempts[c] =>
                    \/ ddos' # NoCheck /\ ddos'.chat_id = c
                    \/ /\ ddos' = NoCheck
                       /\ \A k \in ChatIds : attempts'[k] = Within(attempts[k], now)]_vars

\* a check found an attempt exactly 600 seconds old and evicted it
C29_evicted_at_600 ==
    /\ ddos # NoCheck
    /\ \E i \in DOMAIN ddos.before : now - ddos.before[i] = block_duration
    /\ \A i \in DOMAIN ddos.retained : now - ddos.retained[i] < block_duration
    /\ Len(ddos.retained) < Len(ddos.before)


\* C30: identity isolation.  check_ddos_protection and record_attempt of one
\* chat leave the list of every other chat as it was, and whether a chat is
\* blocked is decided by its own attempts alone.
C30_identity_isolation ==
    /\ [](ddos # NoCheck =>
             (ddos.blocked <=> CountWithin(ddos.before, now) >= max_attempts))
    /\ [][ddos' # NoCheck =>
              /\ ddos'.before = attempts[ddos'.chat_id]
              /\ \A b \in ChatIds \ {ddos'.chat_id} : attempts'[b] = attempts[b]]_vars

\* one chat has used up its attempts, and a check of the other chat, which has
\* attempts of its own, lets that chat through
C30_other_chat_unaffected ==
    /\ ddos # NoCheck
    /\ ~ddos.blocked
    /\ Len(ddos.before) > 0
    /\ \E a \in ChatIds \ {ddos.chat_id} : CountWithin(attempts[a], now) >= max_attempts


\* the outcomes a run ends with: a code delivered, a failure (that of the
\* format check included), a block
TerminalOutcomes == {"Delivered", "Failed", "BadFormat", "Blocked"}

\* the last call of a run is the message that tells its outcome
EndsWithMessage(trace, message) == Len(trace) > 0 /\ trace[Len(trace)] = message

\* C31: termination.  When every external call returns or times out, every run
\* reaches one terminal outcome (Delivered, Failed or Blocked) and makes no
\* external call after it; a timeout of the upstream API is reported as
\* NETWORK_ERROR.
C31_termination ==
    /\ [](bdone.pc = "done" =>
             /\ bdone.outcome \in TerminalOutcomes
             /\ EndsWithMessage(bdone.trace, "reply")
             /\ (PositionsOf(bdone.trace, "code") = {}
                     /\ PositionsOf(bdone.trace, "login") # {}
                     /\ bdone.login_response.net) => bdone.error = "NETWORK_ERROR"
             /\ (PositionsOf(bdone.trace, "code") # {} /\ bdone.response.net) =>
                    bdone.error = "NETWORK_ERROR")
    /\ []((arun # NoRun /\ arun.op \in Orchestrations) =>
             /\ arun.result.success \in BOOLEAN
             /\ Cardinality(EventsOf(arun.trace, "send")) = 1
             /\ EventsOf(arun.trace, "send") = {Len(arun.trace)}
             /\ (arun.response # Absent /\ arun.response.net) =>
                    arun.result.error = "NETWORK_ERROR"
             /\ (arun.op = "process_verification_automatically"
                     /\ arun.login_response.net) => arun.result.error = "NETWORK_ERROR")
    /\ \A s \in Slots :
          (bruns[s].pc # "idle") ~>
              (bdone.pc = "done" /\ bdone.outcome \in TerminalOutcomes)


\* C32: rejected requests are not counted.  A run of handle_phone_number that
\* check_ddos_protection blocks, or whose number fails the format check, appends
\* nothing to the list of its chat: the list only loses its expired entries.
\* The end of a block is therefore 600 seconds after the oldest accepted run
\* still within the window, however many requests come while the chat is blocked.
C32_rejected_not_counted ==
    /\ [](ddos # NoCheck /\ ddos.blocked =>
             now + ddos.time_until_unblock = SeqMin(passes[ddos.chat_id]) + block_duration)
    /\ [][ddos' # NoCheck =>
              LET phone_number == IF bdone'.pc = "done"
                                  THEN bdone'.phone_number
                                  ELSE bruns'[1].phone_number
                  rejected == \/ ddos'.blocked
                              \/ ~startswith_plus(phone_number)
                              \/ Len(phone_number) < 10
              IN  rejected =>
                      /\ attempts'[ddos'.chat_id] = Within(attempts[ddos'.chat_id], now)
                      /\ Len(attempts'[ddos'.chat_id]) <= Len(attempts[ddos'.chat_id])
                      /\ passes' = passes]_vars

\* a request made some seconds after the fifth accepted one is blocked, and the
\* list of the chat is the one the check found
C32_blocked_request_uncounted ==
    /\ ddos # NoCheck
    /\ ddos.blocked
    /\ bdone.outcome = "Blocked"
    /\ attempts[ddos.chat_id] = ddos.before
    /\ \A i \in DOMAIN ddos.before : ddos.before[i] < now


\* C33: window cap.  With the runs of handle_phone_number taken one at a time
\* and a clock that never goes back, a chat never has more than max_attempts
\* timestamps within the last 600 seconds, and the attempt number shown in the
\* processing message, the length of the list right after record_attempt, is
\* between 1 and max_attempts.
C33_window_cap ==
    /\ [](\A c \in ChatIds : CountWithin(attempts[c], now) <= max_attempts)
    /\ [][(ddos' # NoCheck /\ (bruns'[1].pc = "tokens" \/ Accepted(bdone'))) =>
              LET current_attempts == Len(attempts'[ddos'.chat_id])
              IN  /\ current_attempts \in 1..max_attempts
                  /\ current_attempts = CountWithin(attempts'[ddos'.chat_id], now) ]_vars

\* the fifth request of a chat within the window is accepted and is shown as
\* attempt 5 of 5, after earlier attempts of the chat have expired
C33_fifth_attempt_shown ==
    /\ ddos # NoCheck
    /\ ~ddos.blocked
    /\ bruns[1].pc = "tokens"
    /\ Len(ddos.before) > Len(ddos.retained)
    /\ Len(attempts[ddos.chat_id]) = max_attempts
    /\ CountWithin(attempts[ddos.chat_id], now) = max_attempts


\* C34: retry-after bounds.  Whenever check_ddos_protection returns blocked, with
\* a clock that never goes back, time_until_unblock is more than 0 and at most
\* block_duration, so the minutes reported are in 0..10 and the seconds in 0..59.
C34_retry_after_bounds ==
    (ddos # NoCheck /\ ddos.blocked) =>
        /\ 0 < ddos.time_until_unblock
        /\ ddos.time_until_unblock <= block_duration
        /\ ddos.minutes \in 0..10
        /\ ddos.seconds \in 0..59
        /\ ddos.minutes = 10 => ddos.seconds = 0

\* a sixth request at the very second of the five accepted ones: the whole
\* window is left to wait, reported as 10 minutes and 0 seconds
C34_whole_window_left ==
    /\ ddos # NoCheck
    /\ ddos.blocked
    /\ \A i \in DOMAIN ddos.retained : ddos.retained[i] = now
    /\ ddos.time_until_unblock = block_duration
    /\ ddos.minutes = 10
    /\ ddos.seconds = 0


\* the chat would be blocked by a check made at second t
BlockedAt(att, chat_id, t) == Len(Within(att[chat_id], t)) >= max_attempts

\* the second at which the oldest attempt still within the window leaves it
ReleaseOf(att, chat_id, t) == SeqMin(Within(att[chat_id], t)) + block_duration

\* the last second of the clock of the model
Horizon == MaxBurstStart + block_duration

\* C35: block release.  A chat that is blocked stays blocked until the second
\* oldest + 600, oldest being its oldest attempt within the window, and is not
\* blocked at that second, whatever it requests in between: the second of release
\* never moves.  With a clock that keeps advancing every blocked chat comes to a
\* state where check_ddos_protection lets it through.
C35_block_release ==
    /\ [][\A c \in ChatIds :
              BlockedAt(attempts, c, now) =>
                  /\ now < ReleaseOf(attempts, c, now)
                  /\ IF now' < ReleaseOf(attempts, c, now)
                     THEN /\ BlockedAt(attempts', c, now')
                          /\ ReleaseOf(attempts', c, now') = ReleaseOf(attempts, c, now)
                     ELSE ~BlockedAt(attempts', c, now')]_vars
    /\ [](ddos # NoCheck =>
             (ddos.blocked <=> BlockedAt([c \in ChatIds |-> ddos.before], ddos.chat_id, now)))
    /\ \A c \in ChatIds :
          (BlockedAt(attempts, c, now) /\ ReleaseOf(attempts, c, now) <= Horizon)
              ~> ~BlockedAt(attempts, c, now)

\* a chat with five attempts on its list asks again at the second its oldest
\* attempt is 600 seconds old, and the request is accepted
C35_passes_again ==
    /\ ddos # NoCheck
    /\ Len(ddos.before) = max_attempts
    /\ now = SeqMin(ddos.before) + block_duration
    /\ ~ddos.blocked
    /\ bruns[ddos.chat_id].pc = "tokens"
    /\ attempts[ddos.chat_id][Len(attempts[ddos.chat_id])] = now


\* the result carries a code that is a string of at least one character, the
\* one _find_code_in_payload takes from the body of the response
CodeOfResponse(result, response) ==
    /\ result.code.t = "str"
    /\ Len(result.code.v) > 0
    /\ response # Absent
    /\ ~response.net
    /\ response.status = 200
    /\ response.body.t # "notjson"
    /\ result.code = find_code_in_payload(response.body)

\* C36: delivered implies a code.  Every result with success = True returned by
\* request_verification_code, process_verification_request,
\* process_verification_automatically or process_verification_from_token carries
\* a code that is a non-empty string, the one extracted from the HTTP 200
\* response of the code request of the same run; no run whose code request was
\* not made or did not answer 200 returns success.
C36_delivered_implies_code ==
    arun # NoRun =>
        /\ (arun.api_result # Absent /\ arun.api_result.success) =>
               CodeOfResponse(arun.api_result, arun.response)
        /\ arun.result.success =>
               /\ Cardinality(EventsOf(arun.trace, "code")) = 1
               /\ arun.api_result # Absent
               /\ arun.api_result.success
               /\ CodeOfResponse(arun.result, arun.response)
               /\ SentWhat = "code"

\* a run that logged in and requested the code returns success with the code
\* of the response, although Telegram refused the message
C36_success_with_code ==
    /\ arun # NoRun
    /\ arun.op = "process_verification_automatically"
    /\ arun.result.success
    /\ CodeOfResponse(arun.result, arun.response)
    /\ \E i \in EventsOf(arun.trace, "send") : arun.trace[i].delivery = "refused"


\* the tree has, at some depth, a key code or otp in some letter case whose
\* value is a string of at least one character or an integer
RECURSIVE HasCodeOrOtp(_)
HasCodeOrOtp(tree) ==
    CASE tree.t = "obj" ->
             \E i \in DOMAIN tree.v :
                 \/ /\ lower(tree.v[i][1]) \in {K_code, K_otp}
                    /\ \/ tree.v[i][2].t = "int"
                       \/ tree.v[i][2].t = "str" /\ Len(tree.v[i][2].v) > 0
                 \/ HasCodeOrOtp(tree.v[i][2])
      [] tree.t = "arr" -> \E i \in DOMAIN tree.v : HasCodeOrOtp(tree.v[i])
      [] OTHER -> FALSE

\* C37: extractor completeness.  If somewhere in the response tree a key named
\* code or otp, in any letter case, has a non-empty string or an integer as its
\* value, _find_code_in_payload returns a non-empty string and
\* request_verification_code returns success for the HTTP 200 answer with that
\* body; an empty string under a matching key elsewhere in the tree does not
\* hide the code.
C37_extractor_completeness ==
    (ExtractRun /\ HasCodeOrOtp(arun.payload)) =>
        /\ arun.found.t = "str"
        /\ Len(arun.found.v) > 0
        /\ request_verification_code(ValidPhone, JNull, JNull,
                                     Http(200, arun.payload)).success


\* the token has the three segments and the header of an HS256 token and a
\* signature that is not the one of its header and claims under the secret of
\* the agent
BadSignature(jwt_token) ==
    /\ jwt_token.segments = 3
    /\ jwt_token.hdr.alg = "HS256"
    /\ jwt_token.sig # Sign(jwt_secret, jwt_token.hdr, jwt_token.claims)

\* the kinds of result of a validation: the valid token and the three failures
\* of the token
TokenResultKinds == {None, "TOKEN_EXPIRED", "INVALID_TOKEN_TYPE", "INVALID_TOKEN"}

\* C38: check precedence on decode.  validate_verification_token checks the
\* signature and the expiry before the type: a token with a bad signature gets
\* INVALID_TOKEN whatever its type and expiry, a correctly signed token that is
\* expired and of a type other than 'verification' gets TOKEN_EXPIRED and not
\* INVALID_TOKEN_TYPE, and every token gets exactly one of the kinds of result.
C38_check_precedence ==
    vres # NoRun =>
        /\ BadSignature(vres.token) => vres.result = TokenFailure("INVALID_TOKEN")
        /\ (/\ SignedByAgent(vres.token)
            /\ vres.token.claims.exp.t = "int"
            /\ vres.token.claims.exp.v <= now
            /\ vres.token.claims.type # JStr(S_verification)) =>
               vres.result = TokenFailure("TOKEN_EXPIRED")
        /\ vres.result.error \in TokenResultKinds
        /\ vres.result.success <=> vres.result.error = None


\* the calls of the upstream API in the trace of a run of the bot
UpstreamCalls(run) == PositionsOf(run.trace, "login") \cup PositionsOf(run.trace, "code")

\* a run that called the upstream API began with check_ddos_protection and
\* record_attempt, once each
ThroughLimiter(run) ==
    UpstreamCalls(run) # {} =>
        /\ PositionsOf(run.trace, "check") = {1}
        /\ PositionsOf(run.trace, "record") = {2}
        /\ startswith_plus(run.phone_number)

\* C39: every bot entry goes through the limiter.  A run started by /start with
\* an argument or by a shared contact makes the login call and the code request
\* only inside handle_phone_number: after check_ddos_protection has returned
\* blocked = False for the chat of the run and record_attempt has been called
\* for that chat in the same run.
C39_entry_through_limiter ==
    /\ [](/\ \A s \in Slots : ThroughLimiter(bruns[s])
          /\ ThroughLimiter(bdone))
    /\ [][\A s \in Slots :
              /\ (bruns[s].pc = "idle" /\ bruns'[s].pc # "idle") =>
                     LET chat_id == bruns'[s].chat_id
                     IN  /\ UpstreamCalls(bruns'[s]) = {}
                         /\ ddos' # NoCheck
                         /\ ddos'.chat_id = chat_id
                         /\ ~ddos'.blocked
                         /\ Len(Within(attempts[chat_id], now)) < max_attempts
                         /\ attempts'[chat_id] = Append(Within(attempts[chat_id], now), now)
              /\ (bruns[s].pc = "idle" /\ bruns'[s].pc = "idle") =>
                     (bdone' = IdleRun \/ UpstreamCalls(bdone') = {}
                          \/ \E r \in Slots : bruns[r].pc # "idle" /\ bruns'[r].pc = "idle")
              /\ Cardinality(UpstreamCalls(bruns'[s])) > Cardinality(UpstreamCalls(bruns[s])) =>
                     bruns[s].pc \in {"tokens", "code"}]_vars

\* the number of a deep link that came without its '+' was put through the
\* check and recorded before the login and the code request that delivered
\* the code
C39_deep_link_delivered ==
    /\ bdone.pc = "done"
    /\ bdone.outcome = "Delivered"
    /\ bdone.phone_number = <<"+">> \o NoPlusPhone
    /\ bdone.trace[1] = "check"
    /\ bdone.trace[2] = "record"
    /\ PositionsOf(bdone.trace, "login") # {}
    /\ PositionsOf(bdone.trace, "code") # {}
    /\ \E i \in DOMAIN attempts[bdone.chat_id] : attempts[bdone.chat_id][i] <= now

=============================================================================
